---- MODULE Spec2Model ----
(***************************************************************************)
(* H-Index Viewer: the cache-backed, rate-limited Semantic Scholar lookup  *)
(* client of src/ss_utils.py (safe_get, ss_search_author,                  *)
(* ss_get_author_details, ss_get_author_coauthors, load_cache/save_cache), *)
(* and the author records, the coauthor index, the watchlist and the       *)
(* background workers of src/hindex_gui_v3.1.1.py.                         *)
(*                                                                         *)
(* The specifications:                                                     *)
(*   SpecFetch  safe_get called directly, with every base_delay and        *)
(*              max_retries of the bounded input sets, and a log of the    *)
(*              transport outcomes and of the sleeps;                      *)
(*   Spec       the three memoized lookups called one after the other by   *)
(*              one caller, on the module-level cache and its file;        *)
(*   SpecCount  the counting of coauthors over the papers of a response;   *)
(*   SpecSort   the heading clicks of the two trees;                       *)
(*   SpecGui    flagging and unflagging of authors and coauthors;          *)
(*   SpecBulk   import, restart, settings and the background operations,   *)
(*              one at a time, each worker step by step;                   *)
(*   SpecRace   background operations running at the same time;            *)
(*   SpecLoad   SpecRace with restarts and imports;                         *)
(*   SpecLive   SpecRace with threads that keep running;                    *)
(*   SpecFlags  flagging and unflagging over restarts.                      *)
(*                                                                         *)
(* Python values: None and an absent value are the empty sequence, a        *)
(* present value x is <<x>>; a dict is a function on its keys; time is in   *)
(* whole seconds.                                                           *)
(***************************************************************************)
EXTENDS Integers, Sequences, FiniteSets, TLC

VARIABLES
    cache,      \* ss_utils.cache: the module-level dict, key -> value
    file,       \* content of CACHE_FILE as last written by save_cache
    pc,         \* position of the (single) caller
    sg,         \* locals of the running safe_get call
    call,       \* locals of the running lookup call
    cur,        \* the lookup call that has just returned (at pc = "done")
    prev,       \* the lookup call that returned before it
    requests,   \* requests.get calls issued since the running call started
    sleeps,     \* SpecFetch: the time.sleep arguments of the running safe_get
    outcomes,   \* SpecFetch: the transport outcomes of the running safe_get
    rows,       \* HIndexApp.rows: the author records, in list order
    co_index,   \* HIndexApp.co_index: the coauthor entries, in insertion order
    watchlist,  \* HIndexApp.watchlist: name -> snapshot
    current_sort,       \* HIndexApp.current_sort: <<col, descending>>
    current_co_sort,    \* HIndexApp.current_co_sort: <<col, descending>>
    heading,    \* the descending argument of each Authors heading's command
    co_heading, \* the descending argument of each Co-authors heading's command
    tree,       \* the rows of the Authors tree, top to bottom
    ctree,      \* the rows of the Co-authors tree, top to bottom
    after,      \* the callbacks scheduled with root.after, in order
    trip,       \* the records and the watchlist before the flag_author of a
                \* flag / unflag pair on one author
    workers,    \* the background threads of _run_in_thread: position and locals
    log,        \* per worker: its lookup calls and time.sleep calls, in order
    runs        \* background operations started so far

guiVars ==
    <<rows, co_index, watchlist, current_sort, current_co_sort, heading, co_heading,
      tree, ctree, after, trip>>

lookupVars == <<pc, sg, call, cur, prev, requests, sleeps, outcomes>>

bulkVars == <<workers, log, runs>>

vars ==
    <<cache, file, pc, sg, call, cur, prev, requests, sleeps, outcomes,
      rows, co_index, watchlist, current_sort, current_co_sort, heading, co_heading,
      tree, ctree, after, trip, workers, log, runs>>

----------------------------------------------------------------------------
(* Program constants *)

DEFAULT_DELAY == 3
DefaultMaxRetries == 6

(* Bounds of the model *)

MaxHits == 1        \* search results in one response body
MaxPapers == 2      \* SpecCount: papers in one response body
MaxAuthors == 2     \* SpecCount: author entries of one paper

----------------------------------------------------------------------------
(* Python's None / optional values *)

None == <<>>
Some(x) == <<x>>
IsNone(o) == Len(o) = 0
Get(o) == o[1]

RECURSIVE Pow2(_)
Pow2(n) == IF n = 0 THEN 1 ELSE 2 * Pow2(n - 1)

SeqsUpTo(S, n) == UNION {[1..k -> S] : k \in 0..n}

----------------------------------------------------------------------------
(* The transport: what requests.get can do *)

StatusCodes == {200, 400, 404, 429, 500, 502, 503, 504}

NetworkException == [kind |-> "exception"]
Response(s, b) == [kind |-> "response", status |-> s, body |-> b]

\* base_delay values a caller passes (DEFAULT_DELAY and another)
BaseDelays == {1, DEFAULT_DELAY}
\* max_retries values a direct caller of safe_get passes
RetryLimits == 0..DefaultMaxRetries

OpaqueBody == [kind |-> "opaque"]
FetchOutcomes == {NetworkException} \cup {Response(s, OpaqueBody) : s \in StatusCodes}

----------------------------------------------------------------------------
(* safe_get *)

Backoff429Plain(base_delay, attempt) == base_delay * Pow2(attempt)
Backoff429(base_delay, attempt) == base_delay * Pow2(attempt) + 1

Backoff5xx(base_delay, attempt) == base_delay * Pow2(attempt)

ServerErrors == {500, 502, 503, 504}

IsRetryableAlsoClientError(status) == status = 429 \/ status \in ServerErrors \/ status = 404
IsRetryable(status) == status = 429 \/ status \in ServerErrors

\* for attempt in range(max_retries)
LoopContinuesOneMore(s) == s.attempt <= s.max_retries
LoopContinues(s) == s.attempt < s.max_retries

SafeGetInit(base_delay, max_retries) ==
    [base_delay |-> base_delay, max_retries |-> max_retries, attempt |-> 0,
     last_resp |-> None, wait |-> 0, ret |-> None]

SgIdle == SafeGetInit(0, 0)

\* except Exception: return None
OnExceptionLastResp(s) == [sg |-> [s EXCEPT !.ret = s.last_resp], pc |-> "return"]
OnException(s) == [sg |-> [s EXCEPT !.ret = None], pc |-> "return"]

\* the loop body returning the response of the last permitted attempt at
\* once, without the sleep
OnResponseNoLastSleep(s, resp) ==
    LET s1 == [s EXCEPT !.last_resp = Some(resp)] IN
    IF resp.status = 200 \/ ~IsRetryable(resp.status) \/ s.attempt + 1 >= s.max_retries THEN
        [sg |-> [s1 EXCEPT !.ret = Some(resp)], pc |-> "return"]
    ELSE
        [sg |-> [s1 EXCEPT !.wait = IF resp.status = 429
                                        THEN Backoff429(s.base_delay, s.attempt)
                                        ELSE Backoff5xx(s.base_delay, s.attempt)],
         pc |-> "sleep"]

\* the body of the loop after requests.get returned resp
OnResponse(s, resp) ==
    LET s1 == [s EXCEPT !.last_resp = Some(resp)] IN
    IF resp.status = 200 THEN
        [sg |-> [s1 EXCEPT !.ret = Some(resp)], pc |-> "return"]
    ELSE IF ~IsRetryable(resp.status) THEN
        [sg |-> [s1 EXCEPT !.ret = Some(resp)], pc |-> "return"]
    ELSE IF resp.status = 429 THEN
        [sg |-> [s1 EXCEPT !.wait = Backoff429(s.base_delay, s.attempt)], pc |-> "sleep"]
    ELSE
        [sg |-> [s1 EXCEPT !.wait = Backoff5xx(s.base_delay, s.attempt)], pc |-> "sleep"]

\* one pass of the loop up to its return, sleep or continue
SafeGetRequest(o) ==
    /\ pc = "get"
    /\ LoopContinues(sg)
    /\ LET nxt == IF o.kind = "exception" THEN OnException(sg) ELSE OnResponse(sg, o) IN
        /\ sg' = nxt.sg
        /\ pc' = nxt.pc
    /\ requests' = requests + 1

\* time.sleep(wait); continue
SafeGetSleep ==
    /\ pc = "sleep"
    /\ sg' = [sg EXCEPT !.attempt = sg.attempt + 1]
    /\ pc' = "get"

\* the loop ran out: return last_resp
SafeGetExhausted ==
    /\ pc = "get"
    /\ ~LoopContinues(sg)
    /\ sg' = [sg EXCEPT !.ret = sg.last_resp]
    /\ pc' = "return"

----------------------------------------------------------------------------
(* HIndexApp after __init__: no rows, no sort column (None is ""), every     *)
(* heading's command sorting ascending                                       *)

\* the columns of the Authors tree and of the Co-authors tree that are sorted by
SortCols == {"zotero_name", "hindex", "papers"}
CoSortCols == {"hindex", "count"}

NoTrip == [stage |-> "none", name |-> "", rows0 |-> <<>>, watchlist0 |-> <<>>]

\* a worker thread that is not running
WorkerIdle ==
    [kind |-> "none", pc |-> "idle", i |-> 0, names |-> <<>>, op |-> "", top |-> <<>>,
     details |-> <<>>, co |-> <<>>, buf |-> <<>>, resume |-> ""]

WorkerIds == {1, 2}

BulkIdle ==
    /\ workers = [w \in WorkerIds |-> WorkerIdle]
    /\ log = [w \in WorkerIds |-> <<>>]
    /\ runs = 0

AppInit ==
    /\ BulkIdle
    /\ rows = <<>>
    /\ co_index = <<>>
    /\ watchlist = <<>>
    /\ current_sort = <<"", FALSE>>
    /\ current_co_sort = <<"", FALSE>>
    /\ heading = [c \in SortCols |-> FALSE]
    /\ co_heading = [c \in CoSortCols |-> FALSE]
    /\ tree = <<>>
    /\ ctree = <<>>
    /\ after = <<>>
    /\ trip = NoTrip

----------------------------------------------------------------------------
(* SpecFetch: safe_get called directly *)

\* no lookup call running / none returned yet
CallIdle ==
    [op |-> "none", arg |-> "", key |-> "", base_delay |-> 0, fields |-> <<>>,
     tried_fields |-> <<>>, pass |-> 0, net |-> 0, cache0 |-> <<>>, file0 |-> <<>>]
NoCall == [op |-> "none", arg |-> "", key |-> "", ret |-> None, net |-> 0, how |-> "none"]
\* a returned call: its arguments, the return statement taken (how), the value
\* returned, the number of safe_get calls (net), what the last safe_get returned
\* (resp), and the cache and the file as they were when the call started
Returned(op, arg, key, how, ret, net, resp, cache0, file0) ==
    [op |-> op, arg |-> arg, key |-> key, ret |-> ret, net |-> net, how |-> how,
     resp |-> resp, cache0 |-> cache0, file0 |-> file0]
Summary(c) ==
    [op |-> c.op, arg |-> c.arg, key |-> c.key, ret |-> c.ret, net |-> c.net, how |-> c.how]

FetchInit ==
    /\ cache = <<>>
    /\ file = <<>>
    /\ pc = "idle"
    /\ sg = SgIdle
    /\ call = CallIdle
    /\ cur = NoCall
    /\ prev = NoCall
    /\ requests = 0
    /\ sleeps = <<>>
    /\ outcomes = <<>>
    /\ AppInit

FetchCall ==
    /\ pc = "idle"
    /\ \E b \in BaseDelays, m \in RetryLimits : sg' = SafeGetInit(b, m)
    /\ pc' = "get"
    /\ call' = [CallIdle EXCEPT !.op = "fetch"]
    /\ requests' = 0
    /\ sleeps' = <<>>
    /\ outcomes' = <<>>
    /\ UNCHANGED <<cache, file, cur, prev, guiVars, bulkVars>>

FetchRequest ==
    /\ call.op = "fetch"
    /\ \E o \in FetchOutcomes :
        /\ SafeGetRequest(o)
        /\ outcomes' = Append(outcomes, o)
    /\ UNCHANGED <<cache, file, call, cur, prev, sleeps, guiVars, bulkVars>>

FetchSleep ==
    /\ call.op = "fetch"
    /\ SafeGetSleep
    /\ sleeps' = Append(sleeps, sg.wait)
    /\ UNCHANGED <<cache, file, call, cur, prev, requests, outcomes, guiVars, bulkVars>>

FetchExhausted ==
    /\ call.op = "fetch"
    /\ SafeGetExhausted
    /\ UNCHANGED <<cache, file, call, cur, prev, requests, sleeps, outcomes, guiVars, bulkVars>>

\* the caller takes the result; the next call may start
FetchReturn ==
    /\ call.op = "fetch"
    /\ pc = "return"
    /\ pc' = "idle"
    /\ call' = CallIdle
    /\ sg' = SgIdle
    /\ requests' = 0
    /\ sleeps' = <<>>
    /\ outcomes' = <<>>
    /\ UNCHANGED <<cache, file, cur, prev, guiVars, bulkVars>>

FetchNext == FetchCall \/ FetchRequest \/ FetchSleep \/ FetchExhausted \/ FetchReturn

SpecFetch == FetchInit /\ [][FetchNext]_vars

----------------------------------------------------------------------------
(* The Semantic Scholar endpoints: what a response body can hold.  A body is *)
(* text that r.json() fails on, or a JSON value: an object or another value  *)
(* (an array).  The 'data' member of an object is absent, null, a list or a  *)
(* non-empty object.                                                         *)

Names == {"Ada Lovelace", "Alan Turing"}
Ids == {"A1"}
\* author_id arguments: the ids and the empty id
IdArgs == Ids \cup {""}

NotJson == [kind |-> "notjson"]
Json(v) == [kind |-> "json", json |-> v]
JArray == [t |-> "array"]
DataAbsent == [t |-> "absent"]
DataNull == [t |-> "null"]
DataObject == [t |-> "object"]
DataList(items) == [t |-> "list", items |-> items]
JData(d) == [t |-> "object", data |-> d]

\* the text of a non-200 response: does it hold
\* 'Unrecognized or unsupported fields'?
ErrorText(unsupported) == [kind |-> "text", unsupported |-> unsupported]

\* the statuses the endpoints answer with: one of each class safe_get tells apart
LookupStatusCodes == {200, 400, 404, 429, 503}

ErrorResponses ==
    {Response(s, ErrorText(FALSE)) : s \in LookupStatusCodes \ {200}}
        \cup {Response(400, ErrorText(TRUE))}

SearchItems ==
    {[authorId |-> "A1", name |-> "Ada Lovelace"],
     [authorId |-> "A2", name |-> "Alan Turing"]}

SearchBodies ==
    {NotJson, Json(JArray)}
        \cup {Json(JData(d)) : d \in {DataAbsent, DataNull, DataObject}}
        \cup {Json(JData(DataList(l))) : l \in SeqsUpTo(SearchItems, MaxHits)}

DetailObjects ==
    {[t |-> "object", name |-> "Ada Lovelace", hIndex |-> 10, paperCount |-> 20]}

DetailBodies == {NotJson, Json(JArray)} \cup {Json(d) : d \in DetailObjects}

\* an entry of a paper's author list: its 'name' and 'authorName' members
\* ("" when absent, null or empty)
Named(n) == [name |-> n, authorName |-> ""]
Nameless == [name |-> "", authorName |-> ""]

\* a paper: its 'authors' member (<<>> when absent, null or empty)
Paper(authors) == [authors |-> authors]

\* the 'data' lists of the papers endpoint: no paper, a paper without authors,
\* with a nameless author, with one author, and two papers sharing an author
PaperLists ==
    {<<>>,
     <<Paper(<<>>)>>,
     <<Paper(<<Nameless>>)>>,
     <<Paper(<<Named("Charles Babbage")>>)>>,
     <<Paper(<<Named("Charles Babbage"), Nameless>>), Paper(<<Named("Charles Babbage")>>)>>}

PaperBodies ==
    {NotJson, Json(JArray)}
        \cup {Json(JData(d)) : d \in {DataAbsent, DataNull}}
        \cup {Json(JData(DataList(l))) : l \in PaperLists}

Bodies(op) ==
    CASE op = "search" -> SearchBodies
      [] op = "details" -> DetailBodies
      [] op = "coauthors" -> PaperBodies

Transport(op) ==
    {NetworkException} \cup ErrorResponses \cup {Response(200, b) : b \in Bodies(op)}

\* base_delay of the lookups: the default
LookupDelays == {DEFAULT_DELAY}

\* fields arguments of ss_get_author_details, split at the commas
DefaultFields == <<"name", "hIndex", "paperCount">>
FieldChoices ==
    {DefaultFields,
     <<"name", "aliases", "hIndex", "paperCount">>,
     <<"name", "aliasesCount">>}

----------------------------------------------------------------------------
(* The cache and its file *)

SearchKey(name) == "search::" \o name
AuthorKey(author_id) == "author::" \o author_id
CoauthorsKey(author_id) == "coauthors::" \o author_id

\* cache_key in cache
CacheHitNever(c, key) == FALSE
CacheHit(c, key) == key \in DOMAIN c

\* cache[cache_key] = value
CachePutOnly(c, key, value) == [k \in {key} |-> value]
CachePut(c, key, value) ==
    [k \in DOMAIN c \cup {key} |-> IF k = key THEN value ELSE c[k]]

\* save_cache: json.dump of the whole dict over the file.  Every value the
\* lookups store is JSON (string keys, null, numbers, strings, lists, objects).
SaveCache(c) == c

----------------------------------------------------------------------------
(* The three lookups.  Each Finish operator is the code after safe_get       *)
(* returned r, on the cache c: the return statement taken (how), the value   *)
(* returned (ret) and the cache left behind.  how = "raised" is an exception *)
(* that leaves the function.                                                 *)

Outcome(how, ret, c) == [how |-> how, ret |-> ret, cache |-> c]

\* data = j.get('data', []); top = data[0] if data else None
SearchTop(d) ==
    IF d.t = "list" /\ Len(d.items) > 0 THEN Some(d.items[1]) ELSE None

SearchFinishCachingFailures(r, c, key) ==
    IF IsNone(r) \/ Get(r).status # 200 \/ Get(r).body.kind = "notjson"
        THEN Outcome("written", None, CachePut(c, key, None))
    ELSE IF Get(r).body.json.t # "object" \/ Get(r).body.json.data.t = "object"
        THEN Outcome("raised", None, c)
    ELSE Outcome("written", SearchTop(Get(r).body.json.data),
                 CachePut(c, key, SearchTop(Get(r).body.json.data)))

SearchFinish(r, c, key) ==
    IF IsNone(r) THEN Outcome("network_fail", None, c)
    ELSE IF Get(r).status # 200 THEN Outcome("non_200", None, c)
    ELSE IF Get(r).body.kind = "notjson" THEN Outcome("json_fail", None, c)
    \* j.get on a JSON value that is no object: AttributeError
    ELSE IF Get(r).body.json.t # "object" THEN Outcome("raised", None, c)
    \* data[0] on a non-empty object: KeyError
    ELSE IF Get(r).body.json.data.t = "object" THEN Outcome("raised", None, c)
    ELSE Outcome("written", SearchTop(Get(r).body.json.data),
                 CachePut(c, key, SearchTop(Get(r).body.json.data)))

\* the text of a field holds 'aliases' (a substring test)
ContainsAliases(f) == f \in {"aliases", "aliasesCount"}
\* f.strip().lower()
StripLower(f) ==
    CASE f = "hIndex" -> "hindex"
      [] f = "paperCount" -> "papercount"
      [] f = "aliasesCount" -> "aliasescount"
      [] OTHER -> f

\* 'aliases' in tried_fields: a substring test on the comma-joined string
MentionsAliases(fields) == \E i \in 1..Len(fields) : ContainsAliases(fields[i])
\* [f for f in tried_fields.split(",") if f.strip().lower() != 'aliases']
WithoutAliases(fields) == SelectSeq(fields, LAMBDA f : StripLower(f) # "aliases")

\* for _ in range(2): another pass follows the pass c.pass
FallbackContinuesThrice(c) == c.pass < 3
FallbackContinues(c) == c.pass < 2

\* one pass of the loop of ss_get_author_details after safe_get returned r;
\* how = "continue" is the unsupported-fields fallback
DetailsFinishCachingFailures(r, c, key, tried_fields) ==
    IF IsNone(r) THEN Outcome("network_fail", None, c)
    ELSE IF Get(r).status = 200 /\ Get(r).body.kind = "notjson"
        THEN Outcome("json_fail", None, c)
    ELSE IF Get(r).status = 200
        THEN Outcome("written", Some(Get(r).body.json),
                     CachePut(c, key, Some(Get(r).body.json)))
    ELSE Outcome("written", None, CachePut(c, key, None))

DetailsFinish(r, c, key, tried_fields) ==
    IF IsNone(r) THEN Outcome("network_fail", None, c)
    ELSE IF Get(r).status = 200 THEN
        IF Get(r).body.kind = "notjson" THEN Outcome("json_fail", None, c)
        ELSE Outcome("written", Some(Get(r).body.json),
                     CachePut(c, key, Some(Get(r).body.json)))
    ELSE IF Get(r).status = 400 /\ Get(r).body.unsupported /\ MentionsAliases(tried_fields)
        THEN Outcome("continue", None, c)
    ELSE Outcome("non_200", None, c)

\* name = a.get('name') or a.get('authorName') or None
AuthorName(a) == IF a.name # "" THEN a.name ELSE a.authorName

RECURSIVE CountAuthors(_, _)
\* the inner loop: co_counts[name] = co_counts.get(name, 0) + 1
CountAuthors(authors, co_counts) ==
    IF Len(authors) = 0 THEN co_counts
    ELSE LET name == AuthorName(Head(authors)) IN
         CountAuthors(Tail(authors),
            IF name = "" THEN co_counts
            ELSE [n \in DOMAIN co_counts \cup {name} |->
                    IF n = name
                        THEN (IF n \in DOMAIN co_counts THEN co_counts[n] ELSE 0) + 1
                        ELSE co_counts[n]])

RECURSIVE CountPapers(_, _)
\* the outer loop over the papers
CountPapers(papers, co_counts) ==
    IF Len(papers) = 0 THEN co_counts
    ELSE CountPapers(Tail(papers), CountAuthors(Head(papers).authors, co_counts))

EmptyMap == <<>>

\* papers = j.get('data', []) if isinstance(j, dict) else []
PapersOf(j) ==
    IF j.t = "object" /\ j.data.t = "list" THEN j.data.items ELSE <<>>

CoauthorsFinish(r, c, key) ==
    IF IsNone(r) THEN Outcome("network_fail", EmptyMap, c)
    ELSE IF Get(r).status # 200 THEN Outcome("non_200", EmptyMap, c)
    ELSE IF Get(r).body.kind = "notjson" THEN Outcome("json_fail", EmptyMap, c)
    \* for p in None: TypeError
    ELSE IF Get(r).body.json.t = "object" /\ Get(r).body.json.data.t = "null"
        THEN Outcome("raised", EmptyMap, c)
    ELSE Outcome("written", CountPapers(PapersOf(Get(r).body.json), EmptyMap),
                 CachePut(c, key, CountPapers(PapersOf(Get(r).body.json), EmptyMap)))

----------------------------------------------------------------------------
(* Spec: one caller calls the lookups one after the other *)

LookupOps == {"search", "details", "coauthors"}

Init ==
    /\ cache = <<>>
    /\ file = <<>>
    /\ pc = "idle"
    /\ sg = SgIdle
    /\ call = CallIdle
    /\ cur = NoCall
    /\ prev = NoCall
    /\ requests = 0
    /\ sleeps = <<>>
    /\ outcomes = <<>>
    /\ AppInit

\* the entry of a lookup up to its cache check: a hit returns the cached value,
\* a miss calls safe_get
Enter(op, arg, key, base_delay, fields) ==
    /\ pc = "idle"
    /\ requests' = 0
    /\ IF CacheHit(cache, key)
        THEN /\ cur' = Returned(op, arg, key, "hit", cache[key], 0, None, cache, file)
             /\ pc' = "done"
             /\ UNCHANGED <<sg, call>>
        ELSE /\ call' = [op |-> op, arg |-> arg, key |-> key, base_delay |-> base_delay,
                         fields |-> fields, tried_fields |-> fields, pass |-> 1, net |-> 1,
                         cache0 |-> cache, file0 |-> file]
             /\ sg' = SafeGetInit(base_delay, DefaultMaxRetries)
             /\ pc' = "get"
             /\ UNCHANGED cur
    /\ UNCHANGED <<cache, file, prev, sleeps, outcomes, guiVars, bulkVars>>

\* if not author_id: return None / return {}
EnterNoId(op) ==
    /\ pc = "idle"
    /\ requests' = 0
    /\ cur' = Returned(op, "", "", "no_id", None, 0, None, cache, file)
    /\ pc' = "done"
    /\ UNCHANGED <<cache, file, sg, call, prev, sleeps, outcomes, guiVars, bulkVars>>

SearchCall ==
    \E name \in Names, base_delay \in LookupDelays :
        Enter("search", name, SearchKey(name), base_delay, <<>>)

DetailsCall ==
    \E author_id \in IdArgs, base_delay \in LookupDelays, fields \in FieldChoices :
        IF author_id = "" THEN EnterNoId("details")
        ELSE Enter("details", author_id, AuthorKey(author_id), base_delay, fields)

CoauthorsCall ==
    \E author_id \in IdArgs, base_delay \in LookupDelays :
        IF author_id = "" THEN EnterNoId("coauthors")
        ELSE Enter("coauthors", author_id, CoauthorsKey(author_id), base_delay, <<>>)

LookupRequest ==
    /\ call.op \in LookupOps
    /\ \E o \in Transport(call.op) : SafeGetRequest(o)
    /\ UNCHANGED <<cache, file, call, cur, prev, sleeps, outcomes, guiVars, bulkVars>>

LookupSleep ==
    /\ call.op \in LookupOps
    /\ SafeGetSleep
    /\ UNCHANGED <<cache, file, call, cur, prev, requests, sleeps, outcomes, guiVars, bulkVars>>

LookupExhausted ==
    /\ call.op \in LookupOps
    /\ SafeGetExhausted
    /\ UNCHANGED <<cache, file, call, cur, prev, requests, sleeps, outcomes, guiVars, bulkVars>>

\* the lookup ends: its cache write and save_cache, and the value it returns
Finish(out) ==
    /\ cache' = out.cache
    /\ file' = IF out.how = "written" THEN SaveCache(out.cache) ELSE file
    /\ cur' = Returned(call.op, call.arg, call.key, out.how, out.ret, call.net,
                       sg.ret, call.cache0, call.file0)
    /\ pc' = "done"
    /\ sg' = SgIdle
    /\ call' = CallIdle
    /\ UNCHANGED <<prev, requests, sleeps, outcomes, guiVars, bulkVars>>

SearchReturn ==
    /\ call.op = "search"
    /\ pc = "return"
    /\ Finish(SearchFinish(sg.ret, cache, call.key))

DetailsReturn ==
    /\ call.op = "details"
    /\ pc = "return"
    /\ LET out == DetailsFinish(sg.ret, cache, call.key, call.tried_fields) IN
        IF out.how = "continue" THEN
            IF FallbackContinues(call) THEN
                \* tried_fields without 'aliases'; the second pass of the loop
                /\ call' = [call EXCEPT !.tried_fields = WithoutAliases(call.tried_fields),
                                        !.pass = call.pass + 1,
                                        !.net = call.net + 1]
                /\ sg' = SafeGetInit(call.base_delay, DefaultMaxRetries)
                /\ pc' = "get"
                /\ UNCHANGED <<cache, file, cur, prev, requests, sleeps, outcomes, guiVars, bulkVars>>
            ELSE
                \* the loop ran out: return None
                Finish(Outcome("loop_end", None, cache))
        ELSE Finish(out)

CoauthorsReturn ==
    /\ call.op = "coauthors"
    /\ pc = "return"
    /\ Finish(CoauthorsFinish(sg.ret, cache, call.key))

\* the caller has the result (or the exception); the next call may start
Done ==
    /\ pc = "done"
    /\ pc' = "idle"
    /\ prev' = Summary(cur)
    /\ cur' = NoCall
    /\ requests' = 0
    /\ UNCHANGED <<cache, file, sg, call, sleeps, outcomes, guiVars, bulkVars>>

Next ==
    \/ SearchCall
    \/ DetailsCall
    \/ CoauthorsCall
    \/ LookupRequest
    \/ LookupSleep
    \/ LookupExhausted
    \/ SearchReturn
    \/ DetailsReturn
    \/ CoauthorsReturn
    \/ Done

Spec == Init /\ [][Next]_vars

----------------------------------------------------------------------------
(* Claims about the lookups, checked under Spec *)

\* a call that went to the network has returned
Looked(op) == pc = "done" /\ cur.op = op /\ cur.net > 0

\* the same lookup was called for the same argument directly before
Repeated(op) ==
    pc = "done" /\ cur.op = op /\ prev.op = op /\ prev.arg = cur.arg /\ cur.arg # ""

\* safe_get returned an HTTP 200 whose body r.json() parses
Parsed200(resp) ==
    /\ ~IsNone(resp)
    /\ Get(resp).status = 200
    /\ Get(resp).body.kind = "json"

\* ... to an object whose 'data' is absent, null or a list
SearchAnswered(resp) ==
    /\ Parsed200(resp)
    /\ Get(resp).body.json.t = "object"
    /\ Get(resp).body.json.data.t \in {"absent", "null", "list"}

\* the cache is cache0 with value stored under key
Stored(c, c0, key, value) ==
    /\ DOMAIN c = DOMAIN c0 \cup {key}
    /\ c[key] = value
    /\ \A k \in DOMAIN c0 \ {key} : c[k] = c0[k]

SearchFailures == {"network_fail", "non_200", "json_fail"}

C4_DetailsCachesOnly200 ==
    /\ Looked("details") =>
        /\ Parsed200(cur.resp) <=> cur.key \in DOMAIN cache
        /\ Parsed200(cur.resp) =>
            /\ cur.ret = Some(Get(cur.resp).body.json)
            /\ Stored(cache, cur.cache0, cur.key, cur.ret)
            /\ file = cache
        /\ ~Parsed200(cur.resp) =>
            /\ IsNone(cur.ret)
            /\ cache = cur.cache0
            /\ file = cur.file0
    /\ (Repeated("details") /\ prev.how \notin {"written", "hit"}) => cur.net >= 1

C4_Witness ==
    /\ Repeated("details")
    /\ prev.how = "non_200"
    /\ prev.net = 1
    /\ cur.net = 1
    /\ cur.how = "written"
    /\ cur.key \in DOMAIN cache
    /\ file = cache

\* C5 as claimed: getAuthorCoauthors caches and persists its result map
\* whenever the fetch succeeded (HTTP 200, parseable body), the empty map too; a
\* failed lookup (no response, non-200, unparseable body) caches nothing,
\* returns the empty map, and a following call goes to the network again.
C5_Claim ==
    /\ Looked("coauthors") =>
        /\ Parsed200(cur.resp) =>
            /\ cur.key \in DOMAIN cache
            /\ cache[cur.key] = cur.ret
            /\ file = cache
        /\ ~Parsed200(cur.resp) =>
            /\ cur.key \notin DOMAIN cache
            /\ cur.ret = EmptyMap
            /\ cache = cur.cache0
            /\ file = cur.file0
    /\ (Repeated("coauthors") /\ prev.how \in SearchFailures) => cur.net = 1

\* C6 as claimed: no lookup raises an error to its caller, whatever the
\* transport answered, and after a failure the value returned is the no-data
\* value (null, or the empty map for the coauthors).
C6_Claim ==
    pc = "done" =>
        /\ cur.how # "raised"
        /\ cur.how \in {"network_fail", "non_200", "json_fail", "loop_end"} =>
                cur.ret = IF cur.op = "coauthors" THEN EmptyMap ELSE None

\* C11 as claimed: one logical call of a lookup issues at most max_retries
\* requests in total.
C11_Original ==
    (call.op \in LookupOps \/ pc = "done") => requests <= DefaultMaxRetries

\* C11 as amended: every safe_get call of a lookup issues at most max_retries
\* requests; searchAuthor and getAuthorCoauthors call safe_get once, so they
\* issue at most max_retries requests; getAuthorDetails calls safe_get a second
\* time on the unsupported-field fallback, so it issues at most 2 * max_retries
\* requests, and at most max_retries when the fallback is not taken.
C11_RequestCeiling ==
    /\ call.op \in {"search", "coauthors"} =>
        /\ call.pass = 1
        /\ requests <= DefaultMaxRetries
    /\ call.op = "details" =>
        /\ call.pass <= 2
        /\ requests <= DefaultMaxRetries * call.pass
    /\ pc = "done" =>
        /\ cur.net = 2 => cur.op = "details"
        /\ cur.net <= 2
        /\ requests <= DefaultMaxRetries * cur.net

C11_Witness ==
    /\ pc = "done"
    /\ cur.op = "details"
    /\ cur.net = 2
    /\ requests = 2 * DefaultMaxRetries
    /\ cur.how = "non_200"

\* the field f is one of the requested fields
Requested(fields, f) == \E i \in 1..Len(fields) : fields[i] = f

\* safe_get returned an HTTP 400
Got400(resp) == ~IsNone(resp) /\ Get(resp).status = 400

\* C12 as claimed: getAuthorDetails makes its one retry only when 'aliases' is
\* among the requested fields, and then with that field removed; a 400 that ends
\* the call (the second of the same kind, or one when 'aliases' is not
\* requested) returns null without a cache write, and a 400 when 'aliases' is
\* not requested always ends the call.
C12_Claim ==
    /\ (call.op = "details" /\ call.pass = 2) =>
        /\ Requested(call.fields, "aliases")
        /\ ~Requested(call.tried_fields, "aliases")
        /\ call.tried_fields = SelectSeq(call.fields, LAMBDA f : f # "aliases")
    /\ (call.op = "details" /\ pc = "return" /\ Got400(sg.ret)
            /\ ~Requested(call.tried_fields, "aliases")) =>
        DetailsFinish(sg.ret, cache, call.key, call.tried_fields).how = "non_200"
    /\ (pc = "done" /\ cur.op = "details" /\ Got400(cur.resp)) =>
        /\ IsNone(cur.ret)
        /\ cache = cur.cache0
        /\ file = cur.file0

----------------------------------------------------------------------------
(* SpecCount: the counting loop of ss_get_author_coauthors on every papers   *)
(* list of the bounds.  A behaviour starts where safe_get has just returned  *)
(* an HTTP 200 with the list to a call on an empty cache.                    *)

\* entries of a paper's author list: a 'name', an 'authorName' only, no name
AuthorEntries ==
    {Named("Ada Lovelace"),
     [name |-> "", authorName |-> "Charles Babbage"],
     Nameless}

CountInputs == SeqsUpTo({Paper(a) : a \in SeqsUpTo(AuthorEntries, MaxAuthors)}, MaxPapers)

CountInit ==
    /\ cache = <<>>
    /\ file = <<>>
    /\ pc = "return"
    /\ \E l \in CountInputs :
        LET r == Some(Response(200, Json(JData(DataList(l))))) IN
            sg = [SafeGetInit(DEFAULT_DELAY, DefaultMaxRetries)
                    EXCEPT !.last_resp = r, !.ret = r]
    /\ call = [op |-> "coauthors", arg |-> "A1", key |-> CoauthorsKey("A1"),
               base_delay |-> DEFAULT_DELAY, fields |-> <<>>, tried_fields |-> <<>>,
               pass |-> 1, net |-> 1, cache0 |-> <<>>, file0 |-> <<>>]
    /\ cur = NoCall
    /\ prev = NoCall
    /\ requests = 1
    /\ sleeps = <<>>
    /\ outcomes = <<>>
    /\ AppInit

CountNext == CoauthorsReturn \/ Done

SpecCount == CountInit /\ [][CountNext]_vars

\* the names listed on a paper, and the papers of a list that list a name
NamesOn(p) == {AuthorName(p.authors[j]) : j \in 1..Len(p.authors)} \ {""}
PapersListing(papers, n) == {i \in 1..Len(papers) : n \in NamesOn(papers[i])}

\* C13 as claimed: for a successful papers response the map returned holds
\* every name listed on at least one paper, and the value of a name is the
\* number of returned papers that list it.
C13_Claim ==
    (pc = "done" /\ cur.op = "coauthors" /\ cur.how = "written") =>
        LET papers == PapersOf(Get(cur.resp).body.json) IN
            /\ DOMAIN cur.ret = UNION {NamesOn(papers[i]) : i \in 1..Len(papers)}
            /\ \A n \in DOMAIN cur.ret :
                cur.ret[n] = Cardinality(PapersListing(papers, n))

----------------------------------------------------------------------------
(* Claims about safe_get, checked under SpecFetch *)

StatusOf(o) == IF o.kind = "response" THEN o.status ELSE 0
StatusLog == [i \in 1..Len(outcomes) |-> StatusOf(outcomes[i])]
Retried(o) == o.kind = "response" /\ (o.status = 429 \/ o.status \in {500, 502, 503, 504})

\* C7: the i-th sleep of a safe_get call (attempt index a = i - 1) lasts
\* base_delay * 2^a + 1 seconds after an HTTP 429 and base_delay * 2^a seconds
\* after an HTTP 500/502/503/504; on the responses 429, 429, 429, 200 the sleeps
\* are base_delay*1+1, base_delay*2+1, base_delay*4+1 in that order and the
\* fourth response, the 200, is returned.
C7_BackoffSchedule ==
    call.op = "fetch" =>
        /\ Len(sleeps) <= Len(outcomes)
        /\ \A i \in 1..Len(sleeps) :
            /\ outcomes[i].kind = "response"
            /\ outcomes[i].status = 429 =>
                    sleeps[i] = sg.base_delay * (2 ^ (i - 1)) + 1
            /\ outcomes[i].status \in {500, 502, 503, 504} =>
                    sleeps[i] = sg.base_delay * (2 ^ (i - 1))
            /\ outcomes[i].status \in {429, 500, 502, 503, 504}
        /\ (pc = "return" /\ StatusLog = <<429, 429, 429, 200>>) =>
            /\ sleeps = <<sg.base_delay * 1 + 1, sg.base_delay * 2 + 1, sg.base_delay * 4 + 1>>
            /\ sg.ret = Some(outcomes[4])

C7_Witness ==
    /\ call.op = "fetch"
    /\ pc = "return"
    /\ sg.base_delay = 3
    /\ StatusLog = <<429, 429, 429, 200>>
    /\ sleeps = <<4, 7, 13>>
    /\ requests = 4

\* C8: a safe_get call never issues more than max_retries requests, and it
\* returns; when every attempt got a retryable status (429 or 5xx) it has issued
\* exactly max_retries requests (6 with the default) and returns the last
\* response obtained.
C8_RetryCeiling ==
    call.op = "fetch" =>
        /\ requests <= sg.max_retries
        /\ requests = Len(outcomes)
        /\ (pc = "return" /\ \A i \in 1..Len(outcomes) : Retried(outcomes[i])) =>
            /\ requests = sg.max_retries
            /\ sg.max_retries = 6 => (requests = 6 /\ sg.ret = Some(outcomes[6]))
            /\ sg.max_retries > 0 => sg.ret = Some(outcomes[sg.max_retries])
            /\ sg.max_retries = 0 => IsNone(sg.ret)

C8_Witness ==
    /\ call.op = "fetch"
    /\ pc = "return"
    /\ sg.max_retries = 6
    /\ requests = 6
    /\ \A i \in 1..6 : StatusOf(outcomes[i]) = 500
    /\ sg.ret = Some(outcomes[6])

\* C9: a network exception on any attempt, also one that follows 429/5xx
\* responses, ends safe_get at once with None: no request and no sleep follow
\* it, and none of the earlier responses is returned.
C9_ExceptionReturnsNone ==
    (call.op = "fetch" /\ Len(outcomes) > 0) =>
        /\ \A i \in 1..(Len(outcomes) - 1) : outcomes[i].kind = "response"
        /\ outcomes[Len(outcomes)].kind = "exception" =>
            /\ pc = "return"
            /\ IsNone(sg.ret)
            /\ Len(sleeps) = Len(outcomes) - 1
            /\ requests = Len(outcomes)

C9_Witness ==
    /\ call.op = "fetch"
    /\ pc = "return"
    /\ Len(outcomes) = 3
    /\ StatusOf(outcomes[1]) = 429
    /\ StatusOf(outcomes[2]) = 503
    /\ outcomes[3].kind = "exception"
    /\ IsNone(sg.ret)
    /\ Len(sleeps) = 2

\* C10: a response whose status is none of 200, 429, 500, 502, 503, 504 is
\* returned by safe_get on the attempt where it occurs: it is the last outcome,
\* no sleep follows it and it is the value returned.
C10_OtherStatusReturned ==
    (call.op = "fetch" /\ Len(outcomes) > 0) =>
        \A i \in 1..Len(outcomes) :
            (outcomes[i].kind = "response"
                /\ outcomes[i].status \notin {200, 429, 500, 502, 503, 504}) =>
                /\ i = Len(outcomes)
                /\ pc = "return"
                /\ sg.ret = Some(outcomes[i])
                /\ Len(sleeps) = i - 1
                /\ requests = i

C10_Witness ==
    /\ call.op = "fetch"
    /\ pc = "return"
    /\ Len(outcomes) = 2
    /\ StatusOf(outcomes[1]) = 429
    /\ StatusOf(outcomes[2]) = 404
    /\ sg.ret = Some(outcomes[2])
    /\ Len(sleeps) = 1

----------------------------------------------------------------------------
(* The author records of the GUI (src/hindex_gui_v3.1.1.py).  A dict whose   *)
(* order is read (coauthors_list, co_index) is the sequence of its items in  *)
(* insertion order.                                                          *)

MaxRows == 3        \* author records in self.rows
MaxAfter == 2       \* callbacks waiting in the root.after queue

\* values of the 'hindex' and 'papers' fields: '' or None, a number, a value
\* float() fails on
NoVal == [t |-> "none", v |-> 0]
Num(n) == [t |-> "num", v |-> n]
BadVal == [t |-> "text", v |-> 0]

\* an item of a coauthors_list
Co(name, cnt) == [name |-> name, cnt |-> cnt]

\* the records that imports and refreshes leave behind: two refreshed authors
\* with the same h-index, one whose own name and a main author's name are in
\* its coauthor map and whose h-index is no number, and one imported only
AuthorRows ==
    {[zotero_name |-> "Ada Lovelace", ss_name |-> "Ada Lovelace", hindex |-> Num(2),
      papers |-> Num(5), ss_id |-> "A1", flagged |-> FALSE,
      coauthors_list |-> <<Co("Charles Babbage", 2)>>],
     [zotero_name |-> "Alan Turing", ss_name |-> "Alan Turing", hindex |-> Num(2),
      papers |-> Num(3), ss_id |-> "A2", flagged |-> FALSE,
      coauthors_list |-> <<Co("Charles Babbage", 1), Co("Alonzo Church", 3)>>],
     [zotero_name |-> "Charles Babbage", ss_name |-> "Charles Babbage", hindex |-> BadVal,
      papers |-> Num(4), ss_id |-> "A3", flagged |-> FALSE,
      coauthors_list |-> <<Co("Charles Babbage", 4), Co("Ada Lovelace", 1)>>],
     [zotero_name |-> "alonzo church", ss_name |-> "", hindex |-> NoVal,
      papers |-> NoVal, ss_id |-> "", flagged |-> FALSE,
      coauthors_list |-> <<>>]}

\* s.lower()
Lower(s) ==
    CASE s = "Ada Lovelace" -> "ada lovelace"
      [] s = "Alan Turing" -> "alan turing"
      [] s = "Alonzo Church" -> "alonzo church"
      [] s = "Charles Babbage" -> "charles babbage"
      [] OTHER -> s

\* the place of a lower-cased string in the order of the strings
TextRank(s) ==
    CASE s = "" -> 0
      [] s = "ada lovelace" -> 1
      [] s = "alan turing" -> 2
      [] s = "alonzo church" -> 3
      [] s = "charles babbage" -> 4

\* the lists of records the handlers start from: no two records with names
\* equal ignoring case
RowLists ==
    {l \in SeqsUpTo(AuthorRows, MaxRows) :
        \A i, j \in 1..Len(l) :
            Lower(l[i].zotero_name) = Lower(l[j].zotero_name) => i = j}

----------------------------------------------------------------------------
(* build_coauthor_index, first half: the aggregation *)

NewEntry(name) ==
    [name |-> name, count |-> 0, mains |-> {}, ss_name |-> "", hindex |-> NoVal,
     papers |-> NoVal, ss_id |-> "", flagged |-> FALSE]

\* the place of the key name in a dict (0 when absent)
IndexOf(items, name) ==
    IF \E i \in 1..Len(items) : items[i].name = name
        THEN CHOOSE i \in 1..Len(items) : items[i].name = name
        ELSE 0

\* if not co_name: continue / if co_name == r.get('ss_name'): continue
SkippedEmptyOnly(r, co) == co.name = ""
Skipped(r, co) == co.name = "" \/ co.name = r.ss_name

\* entry['count'] += cnt; entry['mains'].add(r['zotero_name'])
ContributeOne(entry, r, co) ==
    [entry EXCEPT !.count = @ + 1, !.mains = @ \cup {r.zotero_name}]
ContributeLastMain(entry, r, co) ==
    [entry EXCEPT !.count = @ + co.cnt, !.mains = {r.zotero_name}]
Contribute(entry, r, co) ==
    [entry EXCEPT !.count = @ + co.cnt, !.mains = @ \cup {r.zotero_name}]

\* the body of the inner loop for the item co of the record r
AddCoauthor(index, r, co) ==
    IF Skipped(r, co) THEN index
    ELSE LET i == IndexOf(index, co.name) IN
         IF i = 0 THEN Append(index, Contribute(NewEntry(co.name), r, co))
         ELSE [index EXCEPT ![i] = Contribute(index[i], r, co)]

RECURSIVE AddCoauthors(_, _, _)
\* for co_name, cnt in (r.get('coauthors_list') or {}).items()
AddCoauthors(index, r, items) ==
    IF Len(items) = 0 THEN index
    ELSE AddCoauthors(AddCoauthor(index, r, Head(items)), r, Tail(items))

RECURSIVE Aggregate(_, _)
\* for r in self.rows
Aggregate(index, rs) ==
    IF Len(rs) = 0 THEN index
    ELSE Aggregate(AddCoauthors(index, Head(rs), Head(rs).coauthors_list), Tail(rs))

----------------------------------------------------------------------------
(* The ordering of refresh_tree and of build_coauthor_index: the flagged     *)
(* items, sorted, before the others, sorted.  A sort key is a float:         *)
(* float('-inf') or a number (a text key is the place of the text in the     *)
(* order of the strings).                                                    *)

NegInf == [fin |-> FALSE, v |-> 0]
Float(n) == [fin |-> TRUE, v |-> n]
KeyLess(a, b) == IF a.fin /\ b.fin THEN a.v < b.v ELSE ~a.fin /\ b.fin

\* list.sort(key=..., reverse=desc) on the list s with the keys keys: by key,
\* items of equal keys in their order in s, in either direction
ListSortReversing(s, keys, desc) ==
    LET n == Len(s)
        Before(j, i) ==
            \/ IF desc THEN KeyLess(keys[i], keys[j]) ELSE KeyLess(keys[j], keys[i])
            \/ /\ ~KeyLess(keys[i], keys[j])
               /\ ~KeyLess(keys[j], keys[i])
               /\ IF desc THEN i < j ELSE j < i
        pos(i) == 1 + Cardinality({j \in 1..n : Before(j, i)})
    IN [p \in 1..n |-> s[CHOOSE i \in 1..n : pos(i) = p]]
ListSort(s, keys, desc) ==
    LET n == Len(s)
        Before(j, i) ==
            \/ IF desc THEN KeyLess(keys[i], keys[j]) ELSE KeyLess(keys[j], keys[i])
            \/ /\ ~KeyLess(keys[i], keys[j])
               /\ ~KeyLess(keys[j], keys[i])
               /\ j < i
        pos(i) == 1 + Cardinality({j \in 1..n : Before(j, i)})
    IN [p \in 1..n |-> s[CHOOSE i \in 1..n : pos(i) = p]]

\* refresh_tree.sort_key for a column col (not None)
sort_key_missing_last(r, col) ==
    IF col \in {"hindex", "papers"}
        THEN IF r[col].t = "num" THEN Float(r[col].v) ELSE Float(1000)
        ELSE Float(TextRank(Lower(r[col])))
sort_key(r, col) ==
    IF col \in {"hindex", "papers"}
        THEN IF r[col].t = "num" THEN Float(r[col].v) ELSE NegInf
        ELSE Float(TextRank(Lower(r[col])))

\* key=lambda r: (r.get('zotero_name') or '').lower()
name_key(r) == Float(TextRank(Lower(r.zotero_name)))

\* others = list(self.rows): the flagged records are in both parts
PartitionOverlapping(items) == <<SelectSeq(items, LAMBDA r : r.flagged), items>>

\* flagged = [r for r in self.rows if r.get('flagged')], others likewise
Partition(items) ==
    <<SelectSeq(items, LAMBDA r : r.flagged), SelectSeq(items, LAMBDA r : ~r.flagged)>>

\* refresh_tree: the rows of the Authors tree for the sort <<col, desc>>
RefreshTree(rs, sort) ==
    LET col == sort[1]
        desc == sort[2]
        Sorted(l) ==
            IF col # ""
                THEN ListSort(l, [i \in 1..Len(l) |-> sort_key(l[i], col)], desc)
                ELSE ListSort(l, [i \in 1..Len(l) |-> name_key(l[i])], FALSE)
    IN Sorted(Partition(rs)[1]) \o Sorted(Partition(rs)[2])

\* build_coauthor_index.co_sort_key for a column col (not None)
co_sort_key(e, col) ==
    IF col \in {"hindex", "papers"}
        THEN IF e[col].t = "num" THEN Float(e[col].v) ELSE Float(-1)
        ELSE Float(e[col])

\* build_coauthor_index, second half: the rows of the Co-authors tree
OrderIndex(index, sort) ==
    LET col == sort[1]
        desc == sort[2]
        Sorted(l) ==
            IF col # ""
                THEN ListSort(l, [i \in 1..Len(l) |-> co_sort_key(l[i], col)], desc)
                ELSE ListSort(l, [i \in 1..Len(l) |-> Float(TextRank(Lower(l[i].name)))],
                              FALSE)
    IN Sorted(Partition(index)[1]) \o Sorted(Partition(index)[2])

----------------------------------------------------------------------------
(* The handlers of the Authors and Co-authors tabs, on every list of records *)
(* of the bounds.  A behaviour starts after the startup load: both trees     *)
(* built with no sort column.  Two specifications:                           *)
(*   SpecSort   clicks on the headings of the two trees, the records flagged *)
(*              in any way (from the watchlist of the cache file);           *)
(*   SpecGui    the flag and unflag entries of the two context menus and the *)
(*              callbacks they schedule, nothing flagged at the start.       *)
(* The cache keys of the lookups are left out: no handler below reads or     *)
(* writes them.  The Watchlist tree shows the watchlist and is not modelled. *)

\* the first record whose zotero_name is name ignoring case (0 when none)
RowOf(rs, name) ==
    IF \E i \in 1..Len(rs) : Lower(rs[i].zotero_name) = Lower(name)
        THEN CHOOSE i \in 1..Len(rs) :
                /\ Lower(rs[i].zotero_name) = Lower(name)
                /\ \A j \in 1..(i - 1) : Lower(rs[j].zotero_name) # Lower(name)
        ELSE 0

\* the watchlist entry made of a record or of a coauthor entry
Snapshot(type, m) ==
    [type |-> type, ss_name |-> m.ss_name, hindex |-> m.hindex, papers |-> m.papers,
     ss_id |-> m.ss_id]

\* del d[k]
DictDel(d, k) == [x \in DOMAIN d \ {k} |-> d[x]]

\* build_coauthor_index on the records rs
BuildCoauthorIndex(rs) ==
    /\ co_index' = Aggregate(<<>>, rs)
    /\ ctree' = OrderIndex(co_index', current_co_sort')

\* the records l with those at the places F flagged
WithFlags(l, F) == [i \in 1..Len(l) |-> [l[i] EXCEPT !.flagged = i \in F]]

\* load_cache_on_startup has run: the records rs (flagged when the watchlist of
\* the cache names them), the index and both trees built
Started(rs) ==
    /\ rows = rs
    /\ co_index = Aggregate(<<>>, rows)
    /\ watchlist =
            [n \in {rs[i].zotero_name : i \in {j \in 1..Len(rs) : rs[j].flagged}} |->
                Snapshot("Author", rs[RowOf(rs, n)])]
    /\ current_sort = <<"", FALSE>>
    /\ current_co_sort = <<"", FALSE>>
    /\ heading = [c \in SortCols |-> FALSE]
    /\ co_heading = [c \in CoSortCols |-> FALSE]
    /\ tree = RefreshTree(rows, current_sort)
    /\ ctree = OrderIndex(co_index, current_co_sort)
    /\ after = <<>>
    /\ trip = NoTrip
    /\ BulkIdle
    /\ cache = [k \in {"zotero_names", "watchlist"} |->
                    IF k = "watchlist" THEN watchlist
                    ELSE [i \in 1..Len(rows) |-> rows[i].zotero_name]]
    /\ file = cache
    /\ pc = "idle"
    /\ sg = SgIdle
    /\ call = CallIdle
    /\ cur = NoCall
    /\ prev = NoCall
    /\ requests = 0
    /\ sleeps = <<>>
    /\ outcomes = <<>>

SortInit == \E l \in RowLists : \E F \in SUBSET (1..Len(l)) : Started(WithFlags(l, F))

GuiInit == \E l \in RowLists : Started(l)

\* a click on the heading col of the Authors tree: sort_by(col, descending)
SortBy ==
    \E col \in SortCols :
        /\ current_sort' = <<col, heading[col]>>
        /\ tree' = RefreshTree(rows, current_sort')
        /\ heading' = [heading EXCEPT ![col] = ~heading[col]]
        /\ trip' = NoTrip
        /\ UNCHANGED <<cache, file, lookupVars, bulkVars, rows, co_index, watchlist,
                       current_co_sort, co_heading, ctree, after>>

\* a click on the heading col of the Co-authors tree: sort_co_by(col, descending)
SortCoBy ==
    \E col \in CoSortCols :
        /\ current_co_sort' = <<col, co_heading[col]>>
        /\ BuildCoauthorIndex(rows)
        /\ co_heading' = [co_heading EXCEPT ![col] = ~co_heading[col]]
        /\ trip' = NoTrip
        /\ UNCHANGED <<cache, file, lookupVars, bulkVars, rows, watchlist, current_sort,
                       heading, tree, after>>

\* cache['watchlist'] = self.watchlist; su.save_cache()
SaveWatchlist ==
    /\ cache' = CachePut(cache, "watchlist", watchlist')
    /\ file' = SaveCache(cache')

\* self.watchlist[name] = meta
WatchPut(w, name, meta) == CachePut(w, name, meta)

\* "Flag as important" in the menu of the Authors row name (offered when no
\* record of that name is flagged): flag_author(name, source='Author')
FlagAuthor ==
    \E t \in 1..Len(tree) :
        LET name == tree[t].zotero_name
            i == RowOf(rows, name)
        IN  /\ ~\E k \in 1..Len(rows) :
                    Lower(rows[k].zotero_name) = Lower(name) /\ rows[k].flagged
            /\ i # 0
            /\ rows' = [rows EXCEPT ![i].flagged = TRUE]
            /\ watchlist' = WatchPut(watchlist, name, Snapshot("Author", rows[i]))
            /\ SaveWatchlist
            /\ tree' = RefreshTree(rows', current_sort)
            /\ trip' = [stage |-> "flagged", name |-> name, rows0 |-> rows,
                        watchlist0 |-> watchlist]
            /\ UNCHANGED <<lookupVars, bulkVars, co_index, current_sort, current_co_sort, heading,
                           co_heading, ctree, after>>

\* "Unflag" in the menu of the Authors row name (offered when a record of that
\* name is flagged): unflag_author(name, source='Author')
UnflagAuthor ==
    \E t \in 1..Len(tree) :
        LET name == tree[t].zotero_name
            i == RowOf(rows, name)
        IN  /\ \E k \in 1..Len(rows) :
                    Lower(rows[k].zotero_name) = Lower(name) /\ rows[k].flagged
            /\ i # 0
            /\ rows' = [rows EXCEPT ![i].flagged = FALSE]
            /\ watchlist' = DictDel(watchlist, name)
            /\ SaveWatchlist
            /\ tree' = RefreshTree(rows', current_sort)
            /\ trip' = IF trip.stage = "flagged" /\ trip.name = name
                        THEN [trip EXCEPT !.stage = "unflagged"]
                        ELSE NoTrip
            /\ UNCHANGED <<lookupVars, bulkVars, co_index, current_sort, current_co_sort, heading,
                           co_heading, ctree, after>>

\* "Flag as important" in the menu of the Co-authors row name (offered when the
\* entry is not flagged): flag_author(name, source='Co-author')
FlagCoauthor ==
    \E t \in 1..Len(ctree) :
        LET name == ctree[t].name
            i == IndexOf(co_index, name)
            meta == IF i = 0 THEN NewEntry(name) ELSE co_index[i]
        IN  /\ ~(i # 0 /\ co_index[i].flagged)
            /\ Len(after) < MaxAfter
            /\ co_index' = IF i = 0 THEN Append(co_index, [meta EXCEPT !.flagged = TRUE])
                           ELSE [co_index EXCEPT ![i].flagged = TRUE]
            /\ watchlist' = WatchPut(watchlist, name, Snapshot("Co-author", meta))
            /\ SaveWatchlist
            /\ after' = Append(after, "build_coauthor_index")
            /\ trip' = NoTrip
            /\ UNCHANGED <<lookupVars, bulkVars, rows, current_sort, current_co_sort, heading,
                           co_heading, tree, ctree>>

\* "Unflag" in the menu of the Co-authors row name (offered when the entry is
\* flagged): unflag_author(name, source='Co-author')
UnflagCoauthor ==
    \E t \in 1..Len(ctree) :
        LET name == ctree[t].name
            i == IndexOf(co_index, name)
        IN  /\ i # 0
            /\ co_index[i].flagged
            /\ Len(after) < MaxAfter
            /\ co_index' = [co_index EXCEPT ![i].flagged = FALSE]
            /\ watchlist' = DictDel(watchlist, name)
            /\ SaveWatchlist
            /\ after' = Append(after, "build_coauthor_index")
            /\ trip' = NoTrip
            /\ UNCHANGED <<lookupVars, bulkVars, rows, current_sort, current_co_sort, heading,
                           co_heading, tree, ctree>>

\* the main loop runs the next scheduled callback: build_coauthor_index
RunAfter ==
    /\ Len(after) > 0
    /\ Head(after) = "build_coauthor_index"
    /\ after' = Tail(after)
    /\ UNCHANGED current_co_sort
    /\ BuildCoauthorIndex(rows)
    /\ trip' = NoTrip
    /\ UNCHANGED <<cache, file, lookupVars, bulkVars, rows, watchlist, current_sort, heading,
                   co_heading, tree>>

\* "Unflag selected" of the Watchlist tab with the rows S selected:
\* unflag_selected_from_watchlist.  The displayed name is the flag emoji, a
\* space and the key; no key starts with either, so lstrip gives the key back.
UnflagSelectedFromWatchlist ==
    \E S \in SUBSET (DOMAIN watchlist) :
        /\ S # {}
        /\ watchlist' = [n \in DOMAIN watchlist \ S |-> watchlist[n]]
        /\ SaveWatchlist
        /\ rows' = [i \in 1..Len(rows) |->
                        IF \E n \in S : /\ watchlist[n].type = "Author"
                                        /\ Lower(rows[i].zotero_name) = Lower(n)
                            THEN [rows[i] EXCEPT !.flagged = FALSE]
                            ELSE rows[i]]
        /\ tree' = RefreshTree(rows', current_sort)
        /\ UNCHANGED current_co_sort
        /\ BuildCoauthorIndex(rows')
        /\ trip' = NoTrip
        /\ UNCHANGED <<lookupVars, bulkVars, current_sort, heading, co_heading, after>>

SortNext == SortBy \/ SortCoBy

SpecSort == SortInit /\ [][SortNext]_vars

GuiNext ==
    \/ FlagAuthor
    \/ UnflagAuthor
    \/ FlagCoauthor
    \/ UnflagCoauthor
    \/ UnflagSelectedFromWatchlist
    \/ RunAfter

SpecGui == GuiInit /\ [][GuiNext]_vars

----------------------------------------------------------------------------
(* Claims about the aggregation, checked under SpecSort *)

\* the count the record r lists for the name c (0 when it does not list c)
Listed(r, c) ==
    IF IndexOf(r.coauthors_list, c) = 0 THEN 0
    ELSE r.coauthors_list[IndexOf(r.coauthors_list, c)].cnt

\* the records of rs that list c and whose ss_name differs from c
Contributors(rs, c) == {i \in 1..Len(rs) : Listed(rs[i], c) > 0 /\ rs[i].ss_name # c}

RECURSIVE SumListed(_, _, _)
\* the sum of Listed(rs[i], c) over the records i of the set S
SumListed(rs, c, S) ==
    IF S = {} THEN 0
    ELSE LET i == CHOOSE x \in S : TRUE IN Listed(rs[i], c) + SumListed(rs, c, S \ {i})

\* count and mains of every name of an index
CountsAndMains(index) ==
    [c \in {index[i].name : i \in 1..Len(index)} |->
        [count |-> index[IndexOf(index, c)].count, mains |-> index[IndexOf(index, c)].mains]]

\* the index has been rebuilt by a click on a Co-authors heading
Rebuilt == current_co_sort[1] # ""

\* C14: the index built by build_coauthor_index has one entry for every name c
\* that some record with another ss_name lists; its count is the sum of
\* record.coauthors[c] over those records and its mains is the set of their
\* zotero_name.  For Ada Lovelace with {Charles Babbage: 2} and Alan Turing
\* with {Charles Babbage: 1, Alonzo Church: 3}: Charles Babbage has count 3 and
\* both mains, Alonzo Church count 3 and the mains {Alan Turing}.
C14_Aggregate ==
    LET agg == CountsAndMains(co_index)
        listed == UNION {{rows[i].coauthors_list[k].name :
                            k \in 1..Len(rows[i].coauthors_list)} : i \in 1..Len(rows)}
    IN  /\ Cardinality(DOMAIN agg) = Len(co_index)
        /\ DOMAIN agg = {c \in listed : Contributors(rows, c) # {}}
        /\ \A c \in DOMAIN agg :
            /\ agg[c].count = SumListed(rows, c, Contributors(rows, c))
            /\ agg[c].mains = {rows[i].zotero_name : i \in Contributors(rows, c)}
        /\ {rows[i].zotero_name : i \in 1..Len(rows)} = {"Ada Lovelace", "Alan Turing"} =>
            agg = [c \in {"Charles Babbage", "Alonzo Church"} |->
                    IF c = "Charles Babbage"
                        THEN [count |-> 3, mains |-> {"Ada Lovelace", "Alan Turing"}]
                        ELSE [count |-> 3, mains |-> {"Alan Turing"}]]

C14_Witness ==
    /\ Rebuilt
    /\ Len(rows) = 2
    /\ rows[1].zotero_name = "Ada Lovelace"
    /\ rows[2].zotero_name = "Alan Turing"
    /\ Len(co_index) = 2
    /\ co_index[1].name = "Charles Babbage"
    /\ co_index[1].count = 3
    /\ co_index[1].mains = {"Ada Lovelace", "Alan Turing"}
    /\ co_index[2].name = "Alonzo Church"
    /\ co_index[2].count = 3
    /\ co_index[2].mains = {"Alan Turing"}

\* C15: the aggregation of the records in any order gives every name the count
\* and the mains of the index, and running the aggregation again on the
\* unchanged records gives the same index.
C15_OrderIndependent ==
    /\ \A p \in Permutations(1..Len(rows)) :
        CountsAndMains(Aggregate(<<>>, [i \in 1..Len(rows) |-> rows[p[i]]]))
            = CountsAndMains(co_index)
    /\ CountsAndMains(Aggregate(<<>>, rows)) = CountsAndMains(co_index)
    /\ CountsAndMains(Aggregate(<<>>, rows)) = CountsAndMains(ctree)

C15_Witness ==
    /\ Rebuilt
    /\ Len(rows) = 3
    /\ rows[1].zotero_name = "Alan Turing"
    /\ rows[3].zotero_name = "Ada Lovelace"
    /\ \E i \in 1..Len(co_index) :
        /\ co_index[i].mains = {"Ada Lovelace", "Alan Turing"}
        /\ co_index[i].count = 3

\* C16: a record that lists its own ss_name adds neither that count nor its
\* zotero_name to the entry of that name; the entry holds what the records of
\* another ss_name list for the name, and there is none when no such record
\* lists it.
C16_SelfExclusion ==
    \A i \in 1..Len(rows) :
        LET c == rows[i].ss_name
            others == Contributors(rows, c)
            e == IndexOf(co_index, c)
        IN  Listed(rows[i], c) > 0 =>
                /\ i \notin others
                /\ e = 0 <=> others = {}
                /\ e # 0 =>
                    /\ rows[i].zotero_name \notin co_index[e].mains
                    /\ co_index[e].count = SumListed(rows, c, others)
                    /\ co_index[e].mains = {rows[j].zotero_name : j \in others}

C16_Witness ==
    /\ Rebuilt
    /\ Len(rows) = 2
    /\ rows[1].zotero_name = "Charles Babbage"
    /\ Listed(rows[1], "Charles Babbage") = 4
    /\ rows[2].zotero_name = "Ada Lovelace"
    /\ \E i \in 1..Len(co_index) :
        /\ co_index[i].name = "Charles Babbage"
        /\ co_index[i].count = 2
        /\ co_index[i].mains = {"Ada Lovelace"}

----------------------------------------------------------------------------
(* Claims about the ordering of the two trees *)

\* the place of the record named n in the Authors tree t
TreePlace(t, n) == CHOOSE i \in 1..Len(t) : t[i].zotero_name = n

\* the flagged items of a tree, in its order, and the others
FlaggedPart(t) == SelectSeq(t, LAMBDA r : r.flagged)
OthersPart(t) == SelectSeq(t, LAMBDA r : ~r.flagged)

Reverse(s) == [i \in 1..Len(s) |-> s[Len(s) + 1 - i]]

\* a run of build_coauthor_index scheduled by root.after
BuildRan == Len(after') < Len(after)

\* C17: after refresh_tree every flagged record is above every unflagged
\* record of the Authors tree, and after build_coauthor_index every flagged
\* entry of the index it was called on is above every unflagged entry in the
\* Co-authors tree, whatever the sort column and direction.
C17_Claim ==
    [][/\ \A i, j \in 1..Len(tree') : tree'[i].flagged /\ ~tree'[j].flagged => i < j
       /\ BuildRan =>
            \A a, b \in 1..Len(co_index) :
                co_index[a].flagged /\ ~co_index[b].flagged =>
                    IndexOf(ctree', co_index[a].name) < IndexOf(ctree', co_index[b].name)]_vars

\* a click on the heading of the current sort column of the Authors tree,
\* which gives the other direction
ToggledSort ==
    /\ current_sort[1] # ""
    /\ current_sort'[1] = current_sort[1]
    /\ current_sort'[2] # current_sort[2]

\* the same on the Co-authors tree
ToggledCoSort ==
    /\ current_co_sort[1] # ""
    /\ current_co_sort'[1] = current_co_sort[1]
    /\ current_co_sort'[2] # current_co_sort[2]

Missing(v) == v.t # "num"

\* C19 as stated: in ascending order by a numeric column, an item whose value
\* is missing or unparseable is below every item of its partition that has
\* a number.
C19_Original ==
    /\ current_sort[1] \in {"hindex", "papers"} /\ ~current_sort[2] =>
        \A i, j \in 1..Len(tree) :
            /\ tree[i].flagged = tree[j].flagged
            /\ Missing(tree[i][current_sort[1]])
            /\ ~Missing(tree[j][current_sort[1]])
            => j < i
    /\ current_co_sort[1] \in {"hindex", "papers"} /\ ~current_co_sort[2] =>
        \A i, j \in 1..Len(ctree) :
            /\ ctree[i].flagged = ctree[j].flagged
            /\ Missing(ctree[i][current_co_sort[1]])
            /\ ~Missing(ctree[j][current_co_sort[1]])
            => j < i

\* C19: by a numeric column, an item whose value is missing or unparseable
\* is above every item of its partition that has a number in ascending order
\* and below it in descending order; the key of such an item is below the key
\* of every number in the author list and of every number from 0 in the
\* coauthor index.
C19_MissingFirstAscending ==
    /\ current_sort[1] \in {"hindex", "papers"} =>
        \A i, j \in 1..Len(tree) :
            /\ tree[i].flagged = tree[j].flagged
            /\ Missing(tree[i][current_sort[1]])
            /\ ~Missing(tree[j][current_sort[1]])
            => IF current_sort[2] THEN j < i ELSE i < j
    /\ current_co_sort[1] \in {"hindex", "papers"} =>
        \A i, j \in 1..Len(ctree) :
            /\ ctree[i].flagged = ctree[j].flagged
            /\ Missing(ctree[i][current_co_sort[1]])
            /\ ~Missing(ctree[j][current_co_sort[1]])
            => IF current_co_sort[2] THEN j < i ELSE i < j
    /\ \A i \in 1..Len(rows) : \A col \in {"hindex", "papers"} : \A v \in {NoVal, BadVal} :
        /\ \A n \in -1..5 :
            KeyLess(sort_key([rows[i] EXCEPT ![col] = v], col),
                    sort_key([rows[i] EXCEPT ![col] = Num(n)], col))
        /\ \A k \in 1..Len(co_index) : \A n \in 0..5 :
            KeyLess(co_sort_key([co_index[k] EXCEPT ![col] = v], col),
                    co_sort_key([co_index[k] EXCEPT ![col] = Num(n)], col))

C19_Witness ==
    /\ current_sort = <<"hindex", FALSE>>
    /\ Len(rows) = 3
    /\ \A i \in 1..3 : ~rows[i].flagged
    /\ rows[1].zotero_name = "Ada Lovelace"
    /\ rows[2].zotero_name = "Charles Babbage"
    /\ rows[3].zotero_name = "alonzo church"
    /\ tree = <<rows[2], rows[3], rows[1]>>

----------------------------------------------------------------------------
(* Claims about the flags, checked under SpecGui *)

\* C20: between flag_author and unflag_author of the same author only the
\* flag bit of its record differs from before the flag, and after the
\* unflag_author every record and the watchlist are as before the flag.
C20_Claim ==
    /\ trip.stage = "flagged" =>
        /\ Len(rows) = Len(trip.rows0)
        /\ \A i \in 1..Len(rows) :
            IF i = RowOf(rows, trip.name)
                THEN rows[i] = [trip.rows0[i] EXCEPT !.flagged = TRUE]
                ELSE rows[i] = trip.rows0[i]
    /\ trip.stage = "unflagged" =>
        /\ rows = trip.rows0
        /\ watchlist = trip.watchlist0

\* C21: after any sequence of flag_author, unflag_author and
\* unflag_selected_from_watchlist, an author record is flagged exactly when
\* the watchlist holds an entry for the author: a flagged record has an entry
\* under its name, and an Author entry is the entry of a flagged record.
C21_Claim ==
    /\ \A i \in 1..Len(rows) :
        rows[i].flagged => rows[i].zotero_name \in DOMAIN watchlist
    /\ \A n \in DOMAIN watchlist :
        watchlist[n].type = "Author" =>
            \E i \in 1..Len(rows) : rows[i].zotero_name = n /\ rows[i].flagged

----------------------------------------------------------------------------
(* The background operations of the GUI.  _run_in_thread starts a thread per *)
(* operation; the thread runs a worker (_refresh_all_worker,                 *)
(* _refresh_item_worker, _build_coauthor_index_worker,                       *)
(* _enrich_coauthor_names_worker) and then schedules on_done with            *)
(* root.after.  A worker is modelled step by step: every lookup is a cache   *)
(* check and, on a miss, a fetch that ends as the Finish operator of the     *)
(* lookup says; save_cache is open(CACHE_FILE, 'w') (the file is empty),     *)
(* json.dump into the buffer of the file object, and the flush when the      *)
(* with block ends.  safe_get is summarised by the response it returns.      *)

MaxRuns == 2        \* background operations started in one behaviour
MaxItems == 2       \* records a bulk operation is started on

\* what Semantic Scholar answers: the id of a name, the name of an id
AuthorIdOf(name) ==
    CASE Lower(name) = "ada lovelace" -> "A1"
      [] Lower(name) = "alan turing" -> "A2"
      [] Lower(name) = "charles babbage" -> "A3"
      [] OTHER -> ""

SsNameOf(id) ==
    CASE id = "A1" -> "Ada Lovelace"
      [] id = "A2" -> "Alan Turing"
      [] id = "A3" -> "Charles Babbage"
      [] OTHER -> ""

\* what safe_get returns to a lookup of a worker: None, or a 200 response
\* whose body holds the result or, for a search, is a JSON array
BulkAnswers(op, arg) ==
    CASE op = "search" ->
            {None,
             Some(Response(200, Json(JArray))),
             Some(Response(200, Json(JData(DataList(
                <<[authorId |-> AuthorIdOf(arg), name |-> SsNameOf(AuthorIdOf(arg))]>>)))))}
      [] op = "details" ->
            {None,
             Some(Response(200, Json([t |-> "object", name |-> SsNameOf(arg),
                                      hIndex |-> 2, paperCount |-> 5])))}
      [] op = "coauthors" ->
            {None,
             Some(Response(200, Json(JData(DataList(
                <<Paper(<<Named("Charles Babbage")>>)>>)))))}

\* the file after open(CACHE_FILE, 'w'), and bytes that are no JSON document
Truncated == <<>>
Garbled == [garbled |-> TRUE]

\* the with block ends: the buffer is written from offset 0 of the file.
\* Over an empty file, or over a dump that holds no key the buffer lacks, the
\* file is the buffer; over a longer dump the tail of that dump stays behind.
FlushedNever(f, buf) == f
FlushedAlways(f, buf) == buf
Flushed(f, buf) ==
    IF f = Garbled THEN Garbled
    ELSE IF DOMAIN f \subseteq DOMAIN buf THEN buf
    ELSE Garbled

\* the items of a dict of counts, as a coauthors_list
RECURSIVE ItemsOf(_)
ItemsOf(m) ==
    IF DOMAIN m = {} THEN <<>>
    ELSE LET n == CHOOSE x \in DOMAIN m :
                    \A y \in DOMAIN m : TextRank(Lower(x)) <= TextRank(Lower(y))
         IN <<Co(n, m[n])>> \o ItemsOf([x \in DOMAIN m \ {n} |-> m[x]])

\* the record import_names_safely appends for the name n
ImportedRow(n) ==
    [zotero_name |-> n, ss_name |-> "", hindex |-> NoVal, papers |-> NoVal, ss_id |-> "",
     flagged |-> FALSE, coauthors_list |-> <<>>]

\* the argument and the cache key of the lookup op of worker w
ItemName(w) ==
    CASE workers[w].kind = "enrich" -> workers[w].names[workers[w].i]
      [] workers[w].kind = "refresh_item" -> workers[w].names[1]
      [] OTHER -> rows[workers[w].i].zotero_name

TopId(w) == IF IsNone(workers[w].top) THEN "" ELSE Get(workers[w].top).authorId

LookupArg(w, op) ==
    IF op = "search" THEN ItemName(w)
    ELSE IF workers[w].kind = "collect" THEN rows[workers[w].i].ss_id
    ELSE TopId(w)

LookupKey(op, arg) ==
    CASE op = "search" -> SearchKey(arg)
      [] op = "details" -> AuthorKey(arg)
      [] op = "coauthors" -> CoauthorsKey(arg)

\* the worker keeps the value a lookup returned
Keep(wk, op, ret) ==
    CASE op = "search" -> [wk EXCEPT !.top = ret]
      [] op = "details" -> [wk EXCEPT !.details = ret]
      [] op = "coauthors" -> [wk EXCEPT !.co = ret]

Kept(wk) ==
    CASE wk.op = "search" -> wk.top
      [] wk.op = "details" -> wk.details
      [] wk.op = "coauthors" -> wk.co

\* time.sleep(base_delay) follows the call of op in the loops of the workers
SleepsAfterEvery(op) == TRUE
SleepsAfter(op) == op = "search"

\* the statement of a worker of the kind kind after the lookup op returned
\* ret (after the sleep, when one follows)
AfterLookup(kind, op, ret) ==
    CASE op = "search" ->
            IF IsNone(ret) THEN (IF kind = "refresh_item" THEN "finally" ELSE "next")
            ELSE "details"
      [] op = "details" -> IF kind = "enrich" THEN "update" ELSE "coauthors"
      [] op = "coauthors" -> "update"

\* the worker goes on at a statement: a lookup starts with its cache check
Goto(wk, target) ==
    IF target \in LookupOps THEN [wk EXCEPT !.pc = "check", !.op = target]
    ELSE [wk EXCEPT !.pc = target]

\* the lookup of the worker has returned the value it keeps
AfterReturn(wk) ==
    IF SleepsAfter(wk.op) THEN [wk EXCEPT !.pc = "sleep"]
    ELSE Goto(wk, AfterLookup(wk.kind, wk.op, Kept(wk)))

\* a log entry of a lookup call and of a sleep
Called(w, op, arg, net, how) ==
    [e |-> "call", op |-> op, arg |-> arg, net |-> net, how |-> how,
     i |-> workers[w].i, delay |-> 0]
Slept(w, delay) ==
    [e |-> "sleep", op |-> "", arg |-> "", net |-> FALSE, how |-> "",
     i |-> workers[w].i, delay |-> delay]

sortVars == <<current_sort, current_co_sort, heading, co_heading>>

\* a lookup begins: "if not author_id: return", then "if cache_key in cache"
LookupCheck(w) ==
    LET wk == workers[w]
        arg == LookupArg(w, wk.op)
        key == LookupKey(wk.op, arg)
    IN  /\ wk.pc = "check"
        /\ IF wk.op # "search" /\ arg = "" THEN
                /\ workers' = [workers EXCEPT ![w] =
                        AfterReturn(Keep(wk, wk.op, IF wk.op = "details" THEN None ELSE EmptyMap))]
                /\ log' = [log EXCEPT ![w] = Append(@, Called(w, wk.op, arg, FALSE, "no_id"))]
           ELSE IF CacheHit(cache, key) THEN
                /\ workers' = [workers EXCEPT ![w] = AfterReturn(Keep(wk, wk.op, cache[key]))]
                /\ log' = [log EXCEPT ![w] = Append(@, Called(w, wk.op, arg, FALSE, "cache_hit"))]
           ELSE /\ workers' = [workers EXCEPT ![w].pc = "fetch"]
                /\ log' = log
        /\ UNCHANGED <<cache, file, lookupVars, rows, co_index, watchlist, sortVars, tree,
                       ctree, after, trip, runs>>

\* safe_get has returned r: the rest of the lookup, up to its return or to
\* the save_cache() that follows its cache write
LookupFetch(w) ==
    LET wk == workers[w]
        arg == LookupArg(w, wk.op)
        key == LookupKey(wk.op, arg)
    IN  /\ wk.pc = "fetch"
        /\ \E r \in BulkAnswers(wk.op, arg) :
            LET out == CASE wk.op = "search" -> SearchFinish(r, cache, key)
                         [] wk.op = "details" -> DetailsFinish(r, cache, key, DefaultFields)
                         [] wk.op = "coauthors" -> CoauthorsFinish(r, cache, key)
            IN  /\ log' = [log EXCEPT ![w] = Append(@, Called(w, wk.op, arg, TRUE, out.how))]
                /\ cache' = out.cache
                /\ workers' = [workers EXCEPT ![w] =
                        IF out.how = "raised" THEN [wk EXCEPT !.pc = "finally"]
                        ELSE IF out.how = "written"
                            THEN [Keep(wk, wk.op, out.ret) EXCEPT
                                    !.pc = "save_open", !.resume = "returned"]
                        ELSE AfterReturn(Keep(wk, wk.op, out.ret))]
        /\ UNCHANGED <<file, lookupVars, rows, co_index, watchlist, sortVars, tree, ctree,
                       after, trip, runs>>

\* time.sleep(base_delay), base_delay being the default of delay_var
Sleep(w) ==
    LET wk == workers[w] IN
    /\ wk.pc = "sleep"
    /\ log' = [log EXCEPT ![w] = Append(@, Slept(w, DEFAULT_DELAY))]
    /\ workers' = [workers EXCEPT ![w] = Goto(wk, AfterLookup(wk.kind, wk.op, Kept(wk)))]
    /\ UNCHANGED <<cache, file, lookupVars, rows, co_index, watchlist, sortVars, tree,
                   ctree, after, trip, runs>>

\* save_cache: with open(CACHE_FILE, 'w', encoding='utf8') as f
SaveOpen(w) ==
    /\ workers[w].pc = "save_open"
    /\ file' = Truncated
    /\ workers' = [workers EXCEPT ![w].pc = "save_dump"]
    /\ UNCHANGED <<cache, lookupVars, rows, co_index, watchlist, sortVars, tree, ctree,
                   after, trip, log, runs>>

\* save_cache: json.dump(cache, f, indent=2)
SaveDump(w) ==
    /\ workers[w].pc = "save_dump"
    /\ workers' = [workers EXCEPT ![w].buf = SaveCache(cache), ![w].pc = "save_close"]
    /\ UNCHANGED <<cache, file, lookupVars, rows, co_index, watchlist, sortVars, tree,
                   ctree, after, trip, log, runs>>

\* save_cache: the with block ends
SaveClose(w) ==
    LET wk == workers[w]
        done == [wk EXCEPT !.buf = <<>>, !.resume = ""]
    IN  /\ wk.pc = "save_close"
        /\ file' = Flushed(file, wk.buf)
        /\ workers' = [workers EXCEPT ![w] =
                IF wk.resume = "returned" THEN AfterReturn(done) ELSE Goto(done, wk.resume)]
        /\ UNCHANGED <<cache, lookupVars, rows, co_index, watchlist, sortVars, tree, ctree,
                       after, trip, log, runs>>

\* the record r after a refresh with the values top, details and coauthors
Refreshed(r, top, details, co) ==
    [r EXCEPT
        !.ss_name = IF IsNone(details) THEN Get(top).name ELSE Get(details).name,
        !.hindex = IF IsNone(details) THEN NoVal ELSE Num(Get(details).hIndex),
        !.papers = IF IsNone(details) THEN NoVal ELSE Num(Get(details).paperCount),
        !.ss_id = Get(top).authorId,
        !.coauthors_list = ItemsOf(co)]

\* the coauthor entry meta after an enrichment with the values top and details
EnrichedAnew(meta, top, details) == [meta EXCEPT !.count = 0, !.ss_id = Get(top).authorId]
Enriched(meta, top, details) ==
    [meta EXCEPT
        !.ss_name = IF IsNone(details) THEN Get(top).name ELSE Get(details).name,
        !.hindex = IF IsNone(details) THEN NoVal ELSE Num(Get(details).hIndex),
        !.papers = IF IsNone(details) THEN NoVal ELSE Num(Get(details).paperCount),
        !.ss_id = Get(top).authorId]

\* the place of the record a worker updates (0 when none)
Target(w) ==
    IF workers[w].kind = "refresh_item"
        THEN RowOf(rows, workers[w].names[1])
        ELSE workers[w].i

\* the statement after the update: the next item, or the end of the worker
AfterUpdate(kind) == IF kind = "refresh_item" THEN "finally" ELSE "next"

\* the worker writes what it looked up into the record, and the snapshot of a
\* flagged record into the watchlist and the cache
UpdateRow(w) ==
    LET wk == workers[w]
        t == Target(w)
        r == IF wk.kind = "collect"
                THEN [rows[t] EXCEPT !.coauthors_list = ItemsOf(wk.co)]
                ELSE Refreshed(rows[t], wk.top, wk.details, wk.co)
    IN  /\ wk.pc = "update"
        /\ wk.kind \in {"refresh_all", "refresh_item", "collect"}
        /\ IF t = 0 THEN
                /\ workers' = [workers EXCEPT ![w].pc = AfterUpdate(wk.kind)]
                /\ UNCHANGED <<rows, watchlist, cache>>
           ELSE IF r.flagged /\ wk.kind # "collect" THEN
                /\ rows' = [rows EXCEPT ![t] = r]
                /\ watchlist' = WatchPut(watchlist, r.zotero_name, Snapshot("Author", r))
                /\ cache' = CachePut(cache, "watchlist", watchlist')
                /\ workers' = [workers EXCEPT ![w].pc = "save_open",
                                              ![w].resume = AfterUpdate(wk.kind)]
           ELSE /\ rows' = [rows EXCEPT ![t] = r]
                /\ workers' = [workers EXCEPT ![w].pc = AfterUpdate(wk.kind)]
                /\ UNCHANGED <<watchlist, cache>>
        /\ UNCHANGED <<file, lookupVars, co_index, sortVars, tree, ctree, after, trip, log,
                       runs>>

\* _enrich_coauthor_names_worker writes what it looked up into the entry of
\* the index, and the snapshot of a flagged entry into the watchlist
UpdateEntry(w) ==
    LET wk == workers[w]
        name == wk.names[wk.i]
        k == IndexOf(co_index, name)
        meta == Enriched(IF k = 0 THEN NewEntry(name) ELSE co_index[k], wk.top, wk.details)
    IN  /\ wk.pc = "update"
        /\ wk.kind = "enrich"
        /\ co_index' = IF k = 0 THEN Append(co_index, meta) ELSE [co_index EXCEPT ![k] = meta]
        /\ IF meta.flagged THEN
                /\ watchlist' = WatchPut(watchlist, name, Snapshot("Co-author", meta))
                /\ cache' = CachePut(cache, "watchlist", watchlist')
                /\ workers' = [workers EXCEPT ![w].pc = "save_open", ![w].resume = "next"]
           ELSE /\ workers' = [workers EXCEPT ![w].pc = "next"]
                /\ UNCHANGED <<watchlist, cache>>
        /\ UNCHANGED <<file, lookupVars, rows, sortVars, tree, ctree, after, trip, log, runs>>

\* the items of the loop of a worker
ItemCount(wk) == IF wk.kind = "enrich" THEN Len(wk.names) ELSE Len(rows)

\* the head of the loop: the next item, or the end of the worker.
\* _build_coauthor_index_worker looks up only a record with an id and no
\* coauthors
NextItem(w) ==
    LET wk == workers[w]
        j == wk.i + 1
        fresh == [wk EXCEPT !.i = j, !.top = <<>>, !.details = <<>>, !.co = <<>>, !.op = ""]
    IN  /\ wk.pc = "next"
        /\ workers' = [workers EXCEPT ![w] =
                IF j > ItemCount(wk) THEN [wk EXCEPT !.pc = "finally"]
                ELSE IF wk.kind # "collect" THEN Goto(fresh, "search")
                ELSE IF rows[j].coauthors_list = <<>> /\ rows[j].ss_id # ""
                    THEN Goto(fresh, "coauthors")
                ELSE [fresh EXCEPT !.pc = "next"]]
        /\ UNCHANGED <<cache, file, lookupVars, rows, co_index, watchlist, sortVars, tree,
                       ctree, after, trip, log, runs>>

\* runner without its finally clause: the thread ends and nothing is scheduled
FinallyLost(w) ==
    /\ workers[w].pc = "finally"
    /\ workers' = [workers EXCEPT ![w] = WorkerIdle]
    /\ log' = [log EXCEPT ![w] = <<>>]
    /\ UNCHANGED <<cache, file, lookupVars, rows, co_index, watchlist, sortVars, tree,
                   ctree, trip, runs, after>>

\* runner: the worker has returned or raised; finally: root.after(10, on_done).
\* The log of a worker holds the calls of its current run only.
Finally(w) ==
    /\ workers[w].pc = "finally"
    /\ after' = Append(after, workers[w].kind)
    /\ workers' = [workers EXCEPT ![w] = WorkerIdle]
    /\ log' = [log EXCEPT ![w] = <<>>]
    /\ UNCHANGED <<cache, file, lookupVars, rows, co_index, watchlist, sortVars, tree,
                   ctree, trip, runs>>

----------------------------------------------------------------------------
(* The operations of the GUI thread that start a worker, import names, load  *)
(* the cache at startup and save the settings                                *)

\* _run_in_thread: threading.Thread(target=runner, daemon=True).start() on a
\* thread w that is not running
StartWorkerAlone(w, kind, names) ==
    /\ workers[w].pc = "idle"
    /\ runs < MaxRuns
    /\ workers' = [v \in WorkerIds |->
            IF v = w THEN [WorkerIdle EXCEPT !.kind = kind, !.names = names, !.pc = "next"]
            ELSE WorkerIdle]
    /\ runs' = runs + 1
    /\ UNCHANGED <<cache, file, lookupVars, rows, co_index, watchlist, sortVars, tree,
                   ctree, after, trip, log>>

StartWorker(w, kind, names) ==
    /\ workers[w].pc = "idle"
    /\ runs < MaxRuns
    /\ workers' = [workers EXCEPT ![w] =
            IF kind = "refresh_item"
                THEN [WorkerIdle EXCEPT !.kind = kind, !.names = names, !.i = 1,
                                        !.pc = "check", !.op = "search"]
                ELSE [WorkerIdle EXCEPT !.kind = kind, !.names = names, !.pc = "next"]]
    /\ runs' = runs + 1
    /\ UNCHANGED <<cache, file, lookupVars, rows, co_index, watchlist, sortVars, tree,
                   ctree, after, trip, log>>

\* the thread a start takes: the first that is not running
FreeWorker(w) == workers[w].pc = "idle" /\ \A v \in 1..(w - 1) : workers[v].pc # "idle"

\* "Refresh all"
RefreshAll == \E w \in WorkerIds : FreeWorker(w) /\ StartWorker(w, "refresh_all", <<>>)

\* "Refresh selected" with one row of the Authors tree selected
RefreshSelected ==
    \E w \in WorkerIds : \E t \in 1..Len(tree) :
        FreeWorker(w) /\ StartWorker(w, "refresh_item", <<tree[t].zotero_name>>)

\* "Build/Refresh co-authors": threaded_build_coauthor_index
ThreadedBuildCoauthorIndex ==
    \E w \in WorkerIds : FreeWorker(w) /\ StartWorker(w, "collect", <<>>)

\* sorted(names) of a set of names that all start with a capital
RECURSIVE SortedNames(_)
SortedNames(S) ==
    IF S = {} THEN <<>>
    ELSE LET n == CHOOSE x \in S : \A y \in S : TextRank(Lower(x)) <= TextRank(Lower(y))
         IN <<n>> \o SortedNames(S \ {n})

\* "Enrich all co-authors": threaded_enrich_coauthors_with_ss on the keys of
\* the index
EnrichCoauthorsWithSs ==
    /\ Len(co_index) > 0
    /\ Len(co_index) <= MaxItems
    /\ \E w \in WorkerIds :
        FreeWorker(w) /\ StartWorker(w, "enrich", SortedNames({co_index[k].name : k \in 1..Len(co_index)}))

\* runner has scheduled on_done of a worker: on_done schedules its callbacks
OnDone ==
    /\ Len(after) > 0
    /\ Head(after) \in {"refresh_all", "refresh_item", "collect", "enrich"}
    /\ after' = Tail(after) \o
            (CASE Head(after) = "refresh_all" -> <<"refresh_tree", "build_coauthor_index">>
               [] Head(after) = "refresh_item" -> <<"refresh_tree">>
               [] OTHER -> <<"build_coauthor_index">>)
    /\ UNCHANGED <<cache, file, lookupVars, bulkVars, rows, co_index, watchlist, sortVars,
                   tree, ctree, trip>>

\* the main loop runs the next scheduled callback: refresh_tree
RunRefreshTree ==
    /\ Len(after) > 0
    /\ Head(after) = "refresh_tree"
    /\ after' = Tail(after)
    /\ tree' = RefreshTree(rows, current_sort)
    /\ UNCHANGED <<cache, file, lookupVars, bulkVars, rows, co_index, watchlist, sortVars,
                   ctree, trip>>

\* the lists of names the parsers hand to import_names_safely: sorted(names)
\* of a set of names, capitals before small letters
ImportLists == {<<"Ada Lovelace", "Alan Turing">>, <<"Ada Lovelace", "ada lovelace">>}

\* for n in names: if n not in current_zotero: current_zotero.append(n)
RECURSIVE Merged(_, _)
Merged(current, names) ==
    IF Len(names) = 0 THEN current
    ELSE Merged(IF \E i \in 1..Len(current) : current[i] = Head(names)
                    THEN current ELSE Append(current, Head(names)),
                Tail(names))

\* cache.get(key, default)
CacheGet(c, key, default) == IF key \in DOMAIN c THEN c[key] ELSE default

\* import_names_safely(names): existing is computed before the loop
ImportNamesSafely ==
    \E names \in ImportLists :
        LET existing == {Lower(rows[i].zotero_name) : i \in 1..Len(rows)}
            new == SelectSeq(names, LAMBDA n : Lower(n) \notin existing)
        IN  /\ Len(rows) + Len(new) <= MaxItems
            /\ rows' = rows \o [i \in 1..Len(new) |-> ImportedRow(new[i])]
            /\ cache' = CachePut(cache, "zotero_names",
                                 Merged(CacheGet(cache, "zotero_names", <<>>), names))
            /\ file' = SaveCache(cache')
            /\ tree' = RefreshTree(rows', current_sort)
            /\ UNCHANGED <<lookupVars, bulkVars, co_index, watchlist, sortVars, ctree, after,
                           trip>>

\* load_cache without its except branch: whatever the file holds
LoadCacheRaw(f) == f

\* load_cache: json.load of the file; {} when that fails
LoadCache(f) == IF f = Garbled THEN <<>> ELSE f

\* the record load_cache_on_startup makes of the name of zotero_names
LoadedRow(c, wl, name) ==
    LET top == CacheGet(c, SearchKey(name), None)
        author_id == IF IsNone(top) THEN "" ELSE Get(top).authorId
        details == IF author_id # "" THEN CacheGet(c, AuthorKey(author_id), None) ELSE None
    IN  [zotero_name |-> name,
         ss_name |-> IF ~IsNone(details) THEN Get(details).name
                     ELSE IF ~IsNone(top) THEN Get(top).name ELSE "",
         hindex |-> IF IsNone(details) THEN NoVal ELSE Num(Get(details).hIndex),
         papers |-> IF IsNone(details) THEN NoVal ELSE Num(Get(details).paperCount),
         ss_id |-> author_id,
         flagged |-> name \in DOMAIN wl,
         coauthors_list |-> IF author_id = "" THEN <<>>
                            ELSE ItemsOf(CacheGet(c, CoauthorsKey(author_id), EmptyMap))]

\* if not any(r['zotero_name'].lower() == row['zotero_name'].lower() ...):
\*     self.rows.append(row)
AppendNew(rs, row) ==
    IF \E i \in 1..Len(rs) : Lower(rs[i].zotero_name) = Lower(row.zotero_name)
        THEN rs ELSE Append(rs, row)

\* the loop over zotero_names
RECURSIVE LoadRows(_, _, _, _)
LoadRows(rs, names, c, wl) ==
    IF Len(names) = 0 THEN rs
    ELSE LoadRows(AppendNew(rs, LoadedRow(c, wl, Head(names))), Tail(names), c, wl)

\* the loop over the watchlist: an Author entry with no record gets one
RECURSIVE LoadWatched(_, _, _)
LoadWatched(rs, wl, todo) ==
    IF todo = {} THEN rs
    ELSE LET n == CHOOSE x \in todo : \A y \in todo : TextRank(Lower(x)) <= TextRank(Lower(y))
         IN LoadWatched(
                IF wl[n].type = "Author"
                    THEN AppendNew(rs, [zotero_name |-> n, ss_name |-> wl[n].ss_name,
                                        hindex |-> wl[n].hindex, papers |-> wl[n].papers,
                                        ss_id |-> wl[n].ss_id, flagged |-> TRUE,
                                        coauthors_list |-> <<>>])
                    ELSE rs,
                wl, todo \ {n})

\* the records of a program started on the cache c
StartupRows(c) ==
    LET wl == CacheGet(c, "watchlist", <<>>)
    IN  LoadWatched(LoadRows(<<>>, CacheGet(c, "zotero_names", <<>>), c, wl), wl, DOMAIN wl)

\* the program is closed and started again: load_cache, then
\* load_cache_on_startup on empty records
Restart ==
    /\ \A w \in WorkerIds : workers[w].pc = "idle"
    /\ cache' = LoadCache(file)
    /\ watchlist' = CacheGet(cache', "watchlist", <<>>)
    /\ rows' = StartupRows(cache')
    /\ current_sort' = <<"", FALSE>>
    /\ current_co_sort' = <<"", FALSE>>
    /\ heading' = [c \in SortCols |-> FALSE]
    /\ co_heading' = [c \in CoSortCols |-> FALSE]
    /\ tree' = IF Len(LoadRows(<<>>, CacheGet(cache', "zotero_names", <<>>), cache',
                               watchlist')) > 0
                THEN RefreshTree(rows', current_sort') ELSE <<>>
    /\ BuildCoauthorIndex(rows')
    /\ after' = <<>>
    /\ trip' = NoTrip
    /\ log' = [w \in WorkerIds |-> <<>>]
    /\ UNCHANGED <<file, lookupVars, workers, runs>>

\* "Save" of the settings dialog with the values it opened with
SaveSettings ==
    /\ cache' = CachePut(cache, "settings", [emoji |-> "star", color |-> "#fff2b2"])
    /\ file' = SaveCache(cache')
    /\ tree' = RefreshTree(rows, current_sort)
    /\ UNCHANGED current_co_sort
    /\ BuildCoauthorIndex(rows)
    /\ UNCHANGED <<lookupVars, bulkVars, rows, watchlist, current_sort, heading, co_heading,
                   after, trip>>

----------------------------------------------------------------------------
(* SpecBulk: the program from its first start, one operation at a time.  The *)
(* GUI thread acts while no worker runs, and but for the flagging and the     *)
(* enrichment of coauthors while no callback waits; a worker runs from its   *)
(* start to its end, step by step.                                           *)

Quiet == \A w \in WorkerIds : workers[w].pc = "idle"
Serial == Quiet /\ after = <<>>

WorkerStep(w) ==
    \/ LookupCheck(w)
    \/ LookupFetch(w)
    \/ Sleep(w)
    \/ SaveOpen(w)
    \/ SaveDump(w)
    \/ SaveClose(w)
    \/ UpdateRow(w)
    \/ UpdateEntry(w)
    \/ NextItem(w)
    \/ Finally(w)

BulkNext ==
    \/ Serial /\ ImportNamesSafely
    \/ Serial /\ Restart
    \/ Serial /\ SaveSettings
    \/ Serial /\ FlagAuthor
    \/ Quiet /\ FlagCoauthor
    \/ Serial /\ RefreshAll
    \/ Serial /\ RefreshSelected
    \/ Serial /\ ThreadedBuildCoauthorIndex
    \/ Quiet /\ EnrichCoauthorsWithSs
    \/ Quiet /\ OnDone
    \/ Quiet /\ RunRefreshTree
    \/ Quiet /\ RunAfter
    \/ \E w \in WorkerIds : WorkerStep(w)

SpecBulk == Init /\ [][BulkNext]_vars

----------------------------------------------------------------------------
(* SpecRace: the program started on the cache file of an earlier session;    *)
(* "Refresh all" and "Refresh selected" are started whatever runs, as no     *)
(* handler waits for a worker, and the steps of the workers interleave.      *)

\* the cache file of an earlier session: both names imported, Alan Turing
\* refreshed
RaceCache ==
    [k \in {"zotero_names", SearchKey("Alan Turing"), AuthorKey("A2"), CoauthorsKey("A2")} |->
        CASE k = "zotero_names" -> <<"Ada Lovelace", "Alan Turing">>
          [] k = SearchKey("Alan Turing") -> Some([authorId |-> "A2", name |-> "Alan Turing"])
          [] k = AuthorKey("A2") -> Some([t |-> "object", name |-> "Alan Turing",
                                          hIndex |-> 2, paperCount |-> 5])
          [] k = CoauthorsKey("A2") -> [n \in {"Charles Babbage"} |-> 1]]

\* the program after its start on the cache file f
StartedOn(f) ==
    /\ file = f
    /\ cache = LoadCache(file)
    /\ watchlist = CacheGet(cache, "watchlist", <<>>)
    /\ rows = StartupRows(cache)
    /\ co_index = Aggregate(<<>>, rows)
    /\ current_sort = <<"", FALSE>>
    /\ current_co_sort = <<"", FALSE>>
    /\ heading = [c \in SortCols |-> FALSE]
    /\ co_heading = [c \in CoSortCols |-> FALSE]
    /\ tree = RefreshTree(rows, current_sort)
    /\ ctree = OrderIndex(co_index, current_co_sort)
    /\ after = <<>>
    /\ trip = NoTrip
    /\ BulkIdle
    /\ pc = "idle"
    /\ sg = SgIdle
    /\ call = CallIdle
    /\ cur = NoCall
    /\ prev = NoCall
    /\ requests = 0
    /\ sleeps = <<>>
    /\ outcomes = <<>>

RaceInit == StartedOn(RaceCache)

RaceStep(w) ==
    \/ LookupCheck(w)
    \/ LookupFetch(w)
    \/ Sleep(w)
    \/ SaveOpen(w)
    \/ SaveDump(w)
    \/ SaveClose(w)
    \/ UpdateRow(w)
    \/ NextItem(w)
    \/ Finally(w)

RaceNext ==
    \/ RefreshAll
    \/ RefreshSelected
    \/ \E w \in WorkerIds : RaceStep(w)
    \/ OnDone
    \/ RunRefreshTree
    \/ RunAfter

SpecRace == RaceInit /\ [][RaceNext]_vars

----------------------------------------------------------------------------
(* Claims on the records across imports and restarts *)

\* every field of the record r that is not empty has the same value in s
SameNonEmpty(r, s) ==
    /\ r.ss_name # "" => s.ss_name = r.ss_name
    /\ r.hindex # NoVal => s.hindex = r.hindex
    /\ r.papers # NoVal => s.papers = r.papers
    /\ r.ss_id # "" => s.ss_id = r.ss_id
    /\ r.coauthors_list # <<>> => s.coauthors_list = r.coauthors_list

\* C22: a restart (the cache is persisted, loaded again and the records are
\* rebuilt by load_cache_on_startup) gives every author record that had a
\* non-empty field a record of the same zotero_name with the same non-empty
\* ss_name, hindex, papers, ss_id and coauthor map.
C22_Claim ==
    [][Restart =>
        \A i \in 1..Len(rows) :
            \/ SameNonEmpty(rows[i], ImportedRow(rows[i].zotero_name))
            \/ \E j \in 1..Len(rows') :
                    /\ rows'[j].zotero_name = rows[i].zotero_name
                    /\ SameNonEmpty(rows[i], rows'[j])]_vars

\* C23: no two author records have names that are equal ignoring case.
C23_Claim ==
    \A i, j \in 1..Len(rows) :
        Lower(rows[i].zotero_name) = Lower(rows[j].zotero_name) => i = j

----------------------------------------------------------------------------
(* Claims on the cache file *)

\* a worker is inside save_cache
Saving(w) == workers[w].pc \in {"save_open", "save_dump", "save_close"}

Processed(w, j) ==
    /\ workers[w].kind = "refresh_all"
    /\ \/ j < workers[w].i
       \/ j = workers[w].i /\ workers[w].pc = "next"

\* C25: at any point of a "Refresh all" run after item k was processed, the
\* cache file holds the result of every successful fetch made for the items
\* 1..k.
C25_Claim ==
    \A w \in WorkerIds : \A n \in 1..Len(log[w]) :
        (log[w][n].how = "written" /\ Processed(w, log[w][n].i)) =>
            /\ LookupKey(log[w][n].op, log[w][n].arg) \in DOMAIN file
            /\ file[LookupKey(log[w][n].op, log[w][n].arg)] =
                    cache[LookupKey(log[w][n].op, log[w][n].arg)]

----------------------------------------------------------------------------
(* Claims on the run of a worker *)

\* the entry at place n of the log l is a lookup that went to the network
NetCall(l, n) == l[n].e = "call" /\ l[n].net

C29_Claim ==
    \A w \in WorkerIds :
        (workers[w].kind = "refresh_all" /\ workers[w].pc = "finally") =>
            /\ \A j \in 1..Len(rows) :
                    Cardinality({n \in 1..Len(log[w]) :
                        /\ log[w][n].op = "search"
                        /\ log[w][n].i = j /\ log[w][n].arg = rows[j].zotero_name}) = 1
            /\ \A a, b \in 1..Len(log[w]) : a < b => log[w][a].i <= log[w][b].i

\* C30: a step of the enrichment worker changes no author record, leaves
\* count, mains and the flag of every coauthor entry as they are, changes no
\* entry it was not started on, and changes the watchlist only at the name of
\* a flagged entry it was started on.
C30_EnrichFrame ==
    [][(\E w \in WorkerIds : workers[w].kind = "enrich" /\ workers'[w] # workers[w]) =>
        /\ rows' = rows
        /\ \A k \in 1..Len(co_index) :
            LET j == IndexOf(co_index', co_index[k].name) IN
            /\ j # 0
            /\ co_index'[j].count = co_index[k].count
            /\ co_index'[j].mains = co_index[k].mains
            /\ co_index'[j].flagged = co_index[k].flagged
            /\ co_index'[j] # co_index[k] =>
                    \E w \in WorkerIds : \E n \in 1..Len(workers[w].names) :
                        workers[w].names[n] = co_index[k].name
        /\ \A n \in DOMAIN watchlist' :
            (n \notin DOMAIN watchlist \/ watchlist'[n] # watchlist[n]) =>
                \E k \in 1..Len(co_index) : co_index[k].name = n /\ co_index[k].flagged
        /\ DOMAIN watchlist \subseteq DOMAIN watchlist']_vars

\* the worker has enriched a flagged entry with a count and written its
\* snapshot into the watchlist
C30_Witness ==
    \E w \in WorkerIds : \E k \in 1..Len(co_index) :
        /\ workers[w].kind = "enrich"
        /\ co_index[k].flagged /\ co_index[k].count > 0 /\ co_index[k].ss_id # ""
        /\ co_index[k].name \in DOMAIN watchlist
        /\ watchlist[co_index[k].name].ss_id = co_index[k].ss_id

----------------------------------------------------------------------------
(* Claims on workers that run at the same time *)

\* C26: nothing keeps two runs from saving at the same time, and a save
\* writes its own dump of the cache over whatever the file holds: when all
\* runs have ended the file holds the whole cache or, after the stale dump of
\* one run was written over the newer dump of the other, nothing that can be
\* read back.
C26_Unsynchronized == Quiet => (file = cache \/ file = Garbled)

\* two runs have ended, and the file a restart would load lacks the search
\* result one of them wrote into the cache
C26_LostUpdate ==
    /\ Quiet
    /\ runs >= 2
    /\ SearchKey("Ada Lovelace") \in DOMAIN cache
    /\ SearchKey("Ada Lovelace") \notin DOMAIN LoadCache(file)

\* C27 as stated: at most one worker is running at any moment.
C27_Original == Cardinality({w \in WorkerIds : workers[w].pc # "idle"}) <= 1

\* C27: every start of an operation puts one more thread to work and leaves
\* the threads that are running as they are.
C27_OwnThread ==
    [][runs' # runs =>
        \E w \in WorkerIds :
            /\ workers[w].pc = "idle"
            /\ workers'[w].pc # "idle"
            /\ \A v \in WorkerIds \ {w} : workers'[v] = workers[v]]_vars

\* two workers are inside their lookups at the same moment
C27_Witness == \A w \in WorkerIds : workers[w].pc \in {"check", "fetch"}

----------------------------------------------------------------------------
(* SpecLoad: the two records of SpecRace with restarts.  A restart loads the *)
(* file the runs have left, also the file that cannot be read back, and the  *)
(* names are imported again into the program it leaves.                      *)

LoadNext ==
    \/ Serial /\ Restart
    \/ Serial /\ ImportNamesSafely
    \/ RefreshAll
    \/ RefreshSelected
    \/ \E w \in WorkerIds : RaceStep(w)
    \/ OnDone
    \/ RunRefreshTree
    \/ RunAfter

SpecLoad == RaceInit /\ [][LoadNext]_vars

\* C31: load_cache fails soft.  A start that finds no file, an empty file or
\* a file that does not parse ends with an empty cache, and with it no
\* records, no watchlist and no coauthors: the program of a first start, in
\* which every lookup misses the cache.
C31_FailsSoft ==
    [][(Restart /\ file \in {Truncated, Garbled}) =>
        /\ cache' = <<>>
        /\ rows' = <<>>
        /\ watchlist' = <<>>
        /\ co_index' = <<>>]_vars

\* the program was started on a file that cannot be read back
C31_Witness ==
    /\ file = Garbled
    /\ cache = <<>>
    /\ rows = <<>>
    /\ Quiet

----------------------------------------------------------------------------
(* Claims about the flags of coauthors, checked under SpecGui *)

\* the watchlist wl holds a Co-author entry of the name n
WatchedCoauthor(wl, n) == n \in DOMAIN wl /\ wl[n].type = "Co-author"

\* C32: when no scheduled callback waits, an entry of the coauthor index is
\* flagged exactly when the watchlist holds a Co-author entry of its name;
\* so an entry flagged by flag_author is still flagged, and above the
\* unflagged entries of the Co-authors tree, after the scheduled
\* build_coauthor_index has run.
C32_Claim ==
    after = <<>> =>
        /\ \A i \in 1..Len(co_index) :
              co_index[i].flagged <=> WatchedCoauthor(watchlist, co_index[i].name)
        /\ \A i, j \in 1..Len(ctree) :
              /\ WatchedCoauthor(watchlist, ctree[i].name)
              /\ ~WatchedCoauthor(watchlist, ctree[j].name)
              => i < j

----------------------------------------------------------------------------
(* Claims about the enrichment and the flags over a restart, checked under   *)
(* SpecBulk                                                                   *)

\* the entry of the name n in the index, None when it has none
EntryOf(index, n) == IF IndexOf(index, n) = 0 THEN None ELSE <<index[IndexOf(index, n)]>>

\* C33: the build_coauthor_index that runs as the completion callback of an
\* enrichment leaves, in the entry of every coauthor the worker has enriched,
\* the ss_name, hindex, papers and ss_id it fetched.
C33_Claim ==
    [][(Quiet /\ RunAfter) =>
        \A i \in 1..Len(co_index) :
            co_index[i].ss_id # "" =>
                /\ ~IsNone(EntryOf(co_index', co_index[i].name))
                /\ LET e == Get(EntryOf(co_index', co_index[i].name))
                   IN  /\ e.ss_id = co_index[i].ss_id
                       /\ e.ss_name = co_index[i].ss_name
                       /\ e.hindex = co_index[i].hindex
                       /\ e.papers = co_index[i].papers]_vars

----------------------------------------------------------------------------
(* SpecFlags: flagging and unflagging of authors and coauthors with          *)
(* restarts, on the cache file of a session that imported Alan Turing and    *)
(* Charles Babbage and refreshed Alan Turing, who lists Charles Babbage as   *)
(* a coauthor.                                                                *)

FlagsCache ==
    [k \in {"zotero_names", SearchKey("Alan Turing"), AuthorKey("A2"), CoauthorsKey("A2")} |->
        CASE k = "zotero_names" -> <<"Alan Turing", "Charles Babbage">>
          [] k = SearchKey("Alan Turing") -> Some([authorId |-> "A2", name |-> "Alan Turing"])
          [] k = AuthorKey("A2") -> Some([t |-> "object", name |-> "Alan Turing",
                                          hIndex |-> 2, paperCount |-> 5])
          [] k = CoauthorsKey("A2") -> [n \in {"Alonzo Church", "Charles Babbage"} |-> 1]]

FlagsInit == StartedOn(FlagsCache)

FlagsNext ==
    \/ FlagAuthor
    \/ UnflagAuthor
    \/ FlagCoauthor
    \/ UnflagCoauthor
    \/ UnflagSelectedFromWatchlist
    \/ RunAfter
    \/ Serial /\ Restart

SpecFlags == FlagsInit /\ [][FlagsNext]_vars

\* the names of the flagged records
FlaggedAuthors(rs) == {rs[i].zotero_name : i \in {j \in 1..Len(rs) : rs[j].flagged}}

\* C34: the records flagged after load_cache_on_startup are the records that
\* were flagged when the program was closed, whatever authors and coauthors
\* were flagged and unflagged before, also with a flagged coauthor that has
\* the display name of an unflagged author.
C34_Claim == [][Restart => FlaggedAuthors(rows') = FlaggedAuthors(rows)]_vars

----------------------------------------------------------------------------
(* Claims about the watchlist snapshots, checked under SpecBulk *)

\* C35: when no worker runs, the watchlist holds for every flagged record an
\* entry under the record's name whose ss_name, hindex, papers and ss_id are
\* the record's current values: flag_author writes the snapshot and every
\* refresh of a flagged record writes it again.
C35_Claim ==
    Quiet =>
        \A i \in 1..Len(rows) :
            rows[i].flagged =>
                /\ rows[i].zotero_name \in DOMAIN watchlist
                /\ LET e == watchlist[rows[i].zotero_name]
                   IN  /\ e.ss_name = rows[i].ss_name
                       /\ e.hindex = rows[i].hindex
                       /\ e.papers = rows[i].papers
                       /\ e.ss_id = rows[i].ss_id

----------------------------------------------------------------------------
(* Claims about the lookups of two workers, checked under SpecRace *)

\* the call n of the log l went to the network for the key of op and arg
Fetched(l, n, op, arg) == NetCall(l, n) /\ l[n].op = op /\ l[n].arg = arg

\* C36 as stated: over any interleaving of the running workers a key is
\* fetched from the network, and its result written into the cache, at most
\* once.
C36_Original ==
    \A w, v \in WorkerIds : \A a \in 1..Len(log[w]) : \A b \in 1..Len(log[v]) :
        (/\ NetCall(log[w], a) /\ log[w][a].how = "written"
         /\ Fetched(log[v], b, log[w][a].op, log[w][a].arg) /\ log[v][b].how = "written") =>
            (w = v /\ a = b)

\* C36: a lookup goes to the network exactly when its own cache check does
\* not find the key (and, for details and coauthors, the id is not empty);
\* nothing keeps a second worker from checking between that check and the
\* cache write.
C36_FetchOnMiss ==
    [][\A w \in WorkerIds :
        (workers[w].pc = "check" /\ workers'[w] # workers[w]) =>
            LET op == workers[w].op
                arg == LookupArg(w, op)
            IN  workers'[w].pc = "fetch" <=>
                    /\ LookupKey(op, arg) \notin DOMAIN cache
                    /\ (op = "search" \/ arg # "")]_vars

\* both workers have fetched the search of Ada Lovelace from the network and
\* written it into the cache
C36_Witness ==
    \A w \in WorkerIds : \E n \in 1..Len(log[w]) :
        /\ Fetched(log[w], n, "search", "Ada Lovelace")
        /\ log[w][n].how = "written"

----------------------------------------------------------------------------
(* SpecLive: SpecRace with threads that keep running.  A thread that can     *)
(* take a step takes one: the scheduler runs every thread, time.sleep ends,  *)
(* and safe_get returns (with a response or with None after its retries).    *)

SpecLive == SpecRace /\ \A w \in WorkerIds : WF_vars(RaceStep(w))

\* the number of completion callbacks in the queue q of root.after
RECURSIVE DoneTokens(_)
DoneTokens(q) ==
    IF Len(q) = 0 THEN 0
    ELSE (IF Head(q) \in {"refresh_all", "refresh_item", "collect", "enrich"} THEN 1 ELSE 0)
            + DoneTokens(Tail(q))

----------------------------------------------------------------------------
(* Claims about the rows of the trees, checked under SpecSort *)

\* how often each element occurs in the sequence s
Occurrences(s) ==
    [x \in {s[i] : i \in 1..Len(s)} |-> Cardinality({i \in 1..Len(s) : s[i] = x})]

\* C38: the rows of the Authors tree are the records, and the rows of the
\* Co-authors tree the entries of the index, each as often as it is there:
\* partitioning by flag, sorting each part and concatenating neither loses
\* nor duplicates an item, whatever the flags, the column and the direction.
C38_Permutation ==
    /\ Occurrences(tree) = Occurrences(rows)
    /\ Len(tree) = Len(rows)
    /\ Occurrences(ctree) = Occurrences(co_index)
    /\ Len(ctree) = Len(co_index)

\* three records, flagged and unflagged, sorted by a column in descending
\* order into an order that is not the order of the records
C38_Witness ==
    /\ Len(rows) = 3
    /\ \E i, j \in 1..Len(rows) : rows[i].flagged /\ ~rows[j].flagged
    /\ current_sort[1] # "" /\ current_sort[2]
    /\ tree # rows
    /\ Len(ctree) >= 2

----------------------------------------------------------------------------
(* Claims about the sleeps of safe_get, checked under SpecFetch *)

\* C39: safe_get sleeps once after every response with status 429 or 5xx,
\* that of the last permitted attempt included: a call has slept as often as
\* it got such a response whenever it is about to request or to return, and
\* a call whose max_retries attempts all got one returns the last response
\* after max_retries sleeps, the last of them following the last request.
C39_SleepsAfterEveryRetryable ==
    call.op = "fetch" =>
        LET retried == {i \in 1..Len(outcomes) : Retried(outcomes[i])} IN
        /\ pc \in {"get", "return"} => Len(sleeps) = Cardinality(retried)
        /\ pc = "sleep" =>
                /\ Len(outcomes) \in retried
                /\ Len(sleeps) = Len(outcomes) - 1
        /\ (pc = "return" /\ sg.max_retries > 0 /\ requests = sg.max_retries
                /\ retried = 1..Len(outcomes)) =>
                /\ Len(sleeps) = sg.max_retries
                /\ sg.ret = Some(outcomes[sg.max_retries])
                /\ sleeps[sg.max_retries] =
                        IF StatusOf(outcomes[sg.max_retries]) = 429
                            THEN Backoff429(sg.base_delay, sg.max_retries - 1)
                            ELSE Backoff5xx(sg.base_delay, sg.max_retries - 1)

\* three permitted attempts answered 503, 429, 429: three sleeps, the last
\* one of 3 * 4 + 1 seconds after the third request, then the third response
\* is returned
C39_Witness ==
    /\ call.op = "fetch"
    /\ pc = "return"
    /\ sg.max_retries = 3
    /\ sg.base_delay = 3
    /\ StatusLog = <<503, 429, 429>>
    /\ sleeps = <<3, 7, 13>>
    /\ requests = 3
    /\ sg.ret = Some(outcomes[3])

====
